---- MODULE Spec2Model ----
(***************************************************************************)
(* Verification model of the ken-shenstone-legacy extraction pipeline:     *)
(*   - Stage B date alignment            (fix_dates_v2.py)                 *)
(*   - Stage A/C date assignment         (rename_images.py)                *)
(*   - divider detection / segmentation  (process_chunks.py,               *)
(*                                        extract_chunks.py,               *)
(*                                        extract_facebook.py)             *)
(*   - chunk planning                    (split_pngs.py)                   *)
(*   - checkpointed unit loop            (process_chunks.py,               *)
(*                                        extract_chunks.py)               *)
(* Each subsystem has its own specification (SpecB, SpecC, SpecSeg,        *)
(* SpecSplit, SpecRun) over the shared variable tuple; the variables of    *)
(* the other subsystems stay at their idle values.                         *)
(***************************************************************************)
EXTENDS Integers, Sequences, FiniteSets, TLC

VARIABLES
    \* ---- Stage B (fix_dates_v2.py) ----
    fb_iso,            \* known dates as ISO strings, newest first
    image_posts,       \* image-bearing posts in scroll order (their OCR date match)
    remaining_dates,   \* unconsumed known dates as datetimes (ordinals)
    remaining_iso,     \* unconsumed known dates as ISO strings
    assignments,       \* sequence of [post, date]
    post_i,            \* number of image posts the loop has passed
    \* ---- Stage A/C (rename_images.py) ----
    posts_chrono,      \* posts in scroll order: [date_parsed, ocr_text]
    p_date,            \* p["_date"] per post
    p_precision,       \* p["_date_precision"] per post
    p_source,          \* p["_date_source"] per post
    known,             \* list of <<chrono_idx, ordinal>> of the dated posts
    pcC,               \* where the script is
    ci,                \* posts the current loop has passed
    \* ---- divider detection, segmentation, chunk planning ----
    img,               \* the image: runs of equal rows [div, len], top to bottom
    variant,           \* which script's segmenter runs
    pcS,               \* "start" before the function ran, "done" after
    gaps,              \* detected divider gaps <<start, end>>
    regions,           \* emitted post regions <<start, end>>
    cut_points,        \* split_pngs: rows chosen by plan_cuts
    chunks,            \* split_pngs: chunks written, [idx, y_start, y_end]
    \* ---- checkpointed unit loop (process_chunks.py, extract_chunks.py) ----
    script,            \* which script's main runs
    resume,            \* this run resumes (process_chunks: no --force; extract_chunks: --resume)
    disk,              \* file name -> [state, data]
    done_set,          \* completed unit ids held in memory
    timeline,          \* timeline["posts"] held in memory: the unit each post came from
    stats,             \* timeline["stats"] held in memory
    remaining,         \* extract_chunks: the units this run will attempt
    unit_i,            \* position of the unit loop
    pcR,               \* where the run is
    saving,            \* the file being saved
    save_pc,           \* the step of the save
    in_except,         \* process_chunks: the saves are those of the except branch
    attempts,          \* history: calls of the per-unit function in this run
    outcome,           \* history: how each unit's processing ended in this run
    kept_posts,        \* history: the posts held when the last processing raised
    loaded,            \* history: the completed set on disk when this run started
    timeline_loaded,   \* history: the timeline on disk when this run started
    ever_saved,        \* history: files that were once saved completely
    write_failed,      \* history: a checkpoint write raised in this run
    runs,              \* script invocations so far
    crashes,           \* crashes so far
    write_failures,    \* checkpoint writes that raised so far
    \* ---- content signals (detect_signals, detect_content_signals) ----
    text,              \* the OCR text of one region
    sig_script,        \* which script's detector runs
    signals,           \* the signals dict returned
    pcT,               \* whether the detector has run
    \* ---- image extraction (extract_post_images, extract_images) ----
    ex_script,         \* which script extracts
    region_w,          \* width of the regions
    layout,            \* how the regions lie in chunks
    region_k,          \* regions processed so far
    contours,          \* the candidate boxes of the last region
    all_images,        \* the Image records so far
    all_posts,         \* the Post records so far
    crawl_targets      \* the crawl targets so far

varsB == <<fb_iso, image_posts, remaining_dates, remaining_iso, assignments, post_i>>

varsC == <<posts_chrono, p_date, p_precision, p_source, known, pcC, ci>>

varsS == <<img, variant, pcS, gaps, regions, cut_points, chunks>>

varsR == <<script, resume, disk, done_set, timeline, stats, remaining, unit_i, pcR, saving,
           save_pc, in_except, attempts, outcome, kept_posts, loaded, timeline_loaded,
           ever_saved, write_failed, runs, crashes, write_failures>>

varsT == <<text, sig_script, signals, pcT>>

varsX == <<ex_script, region_w, layout, region_k, contours, all_images, all_posts,
           crawl_targets>>

vars == <<varsB, varsC, varsS, varsR, varsT, varsX>>

\* what each subsystem leaves alone
othersB == <<varsC, varsS, varsR, varsT, varsX>>
othersC == <<varsB, varsS, varsR, varsT, varsX>>
othersS == <<varsB, varsC, varsR, varsT, varsX>>
othersR == <<varsB, varsC, varsS, varsT, varsX>>
othersX == <<varsB, varsC, varsS, varsR, varsT>>
othersT == <<varsB, varsC, varsS, varsR, varsX>>

(***************************************************************************)
(* Calendar arithmetic of datetime: proleptic Gregorian ordinals.          *)
(* An ISO string "YYYY-MM-DD" is modelled by the triple <<Y, M, D>>.       *)
(***************************************************************************)
\* years the model's dates fall in
YearRange == 2000..2030

IsLeap(y) == (y % 4 = 0) /\ ((y % 100 # 0) \/ (y % 400 = 0))

DaysInMonth(y, m) ==
    IF m = 2 THEN (IF IsLeap(y) THEN 29 ELSE 28)
    ELSE IF m \in {4, 6, 9, 11} THEN 30 ELSE 31

\* datetime(y, m, d) raises ValueError unless this holds
ValidDate(y, m, d) ==
    /\ y \in 1..9999
    /\ m \in 1..12
    /\ d >= 1
    /\ d <= DaysInMonth(y, m)

DaysBeforeYear(y) ==
    (y - 1) * 365 + ((y - 1) \div 4) - ((y - 1) \div 100) + ((y - 1) \div 400)

RECURSIVE DaysBeforeMonth(_, _)
DaysBeforeMonth(y, m) ==
    IF m = 1 THEN 0 ELSE DaysBeforeMonth(y, m - 1) + DaysInMonth(y, m - 1)

\* datetime(y, m, d).toordinal()
ToOrdinal(y, m, d) == DaysBeforeYear(y) + DaysBeforeMonth(y, m) + d

IsoToOrdinal(iso) == ToOrdinal(iso[1], iso[2], iso[3])

\* datetime.fromordinal(o).strftime("%Y-%m-%d")
FromOrdinal(o) ==
    LET y == CHOOSE yy \in YearRange :
                 DaysBeforeYear(yy) < o /\ o <= DaysBeforeYear(yy + 1)
        r == o - DaysBeforeYear(y)
        m == CHOOSE mm \in 1..12 :
                 DaysBeforeMonth(y, mm) < r
                 /\ r <= DaysBeforeMonth(y, mm) + DaysInMonth(y, mm)
    IN  <<y, m, r - DaysBeforeMonth(y, m)>>

\* comparison of two ISO strings (zero padded, so lexicographic = by field)
IsoGeq(a, b) ==
    \/ a[1] > b[1]
    \/ a[1] = b[1] /\ a[2] > b[2]
    \/ a[1] = b[1] /\ a[2] = b[2] /\ a[3] >= b[3]

Abs(x) == IF x < 0 THEN 0 - x ELSE x

(***************************************************************************)
(* Stage B: greedy ordered alignment (fix_dates_v2.py)                     *)
(***************************************************************************)
MaxKnown == 3      \* longest known-date list explored
MaxPosts == 3      \* most image-bearing posts explored

\* the pool the known-date lists are drawn from (real FB_RAW spans 2009..2020)
KnownPool == { <<2020, 6, 1>>, <<2019, 1, 15>>, <<2019, 1, 1>>, <<2018, 6, 10>> }

\* what the date regex finds in a post's ocr_text: nothing, or month/day/year groups
NoMatch == [hit |-> FALSE, y |-> 0, m |-> 0, d |-> 0]
Match(y, m, d) == [hit |-> TRUE, y |-> y, m |-> m, d |-> d]

OcrPool ==
    { NoMatch,
      Match(2019, 1, 1),      \* equal to a known date
      Match(2019, 1, 8),      \* 7 days from two known dates
      Match(2018, 6, 12),     \* near the oldest pool date
      Match(2004, 3, 5),      \* year below the accepted range
      Match(2026, 3, 5),      \* year above the accepted range
      Match(2019, 2, 30) }    \* not a calendar date

\* strictly descending sequences over KnownPool, as sorted(..., reverse=True) yields
Descending(s) ==
    \A i \in 1..(Len(s) - 1) : IsoToOrdinal(s[i]) > IsoToOrdinal(s[i + 1])

KnownLists ==
    { s \in UNION { [1..n -> KnownPool] : n \in 1..MaxKnown } : Descending(s) }

ClosestIndexLast(ds, target) ==
    CHOOSE i \in 0..(Len(ds) - 1) :
        /\ \A j \in 0..(Len(ds) - 1) :
               Abs(ds[i + 1] - target) <= Abs(ds[j + 1] - target)
        /\ \A j \in (i + 1)..(Len(ds) - 1) :
               Abs(ds[j + 1] - target) > Abs(ds[i + 1] - target)

\* min(range(len(ds)), key=lambda i: abs((ds[i] - target).days)): first minimal index
ClosestIndex(ds, target) ==
    CHOOSE i \in 0..(Len(ds) - 1) :
        /\ \A j \in 0..(Len(ds) - 1) :
               Abs(ds[i + 1] - target) <= Abs(ds[j + 1] - target)
        /\ \A j \in 0..(i - 1) :
               Abs(ds[j + 1] - target) > Abs(ds[i + 1] - target)

\* fb_iso_remaining.index(target_iso): first index holding the value
IndexOf(s, v) == CHOOSE i \in 0..(Len(s) - 1) :
                     s[i + 1] = v /\ \A j \in 0..(i - 1) : s[j + 1] # v

\* the year window of find_best_fb_date
YearLo == 2005
YearHi == 2025

find_best_fb_date_first(post, fb_dates_remaining, fb_iso_remaining) == 0

\* returns the 0-based index into the remaining lists
find_best_fb_date(post, fb_dates_remaining, fb_iso_remaining) ==
    IF post.hit /\ post.y >= YearLo /\ post.y <= YearHi
       /\ ValidDate(post.y, post.m, post.d)
    THEN LET target == ToOrdinal(post.y, post.m, post.d)
             target_iso == FromOrdinal(target)
         IN  IF \E k \in 1..Len(fb_iso_remaining) : fb_iso_remaining[k] = target_iso
             THEN IndexOf(fb_iso_remaining, target_iso)
             ELSE ClosestIndex(fb_dates_remaining, target)
    ELSE 0

KeepAssigned(s, idx) == SubSeq(s, idx + 1, Len(s))

DropOnlyAssigned(s, idx) ==
    [k \in 1..(Len(s) - 1) |-> IF k <= idx THEN s[k] ELSE s[k + 1]]

\* s[idx + 1:]
SliceAfter(s, idx) == SubSeq(s, idx + 2, Len(s))

StepDays == 14

ExtrapolateForward(last_iso) == FromOrdinal(IsoToOrdinal(last_iso) + StepDays)

\* strptime(last) - timedelta(days=14), formatted back
ExtrapolateBack(last_iso) == FromOrdinal(IsoToOrdinal(last_iso) - StepDays)

\* Stage B variables while another subsystem runs
IdleB ==
    /\ fb_iso = <<>>
    /\ image_posts = <<>>
    /\ remaining_dates = <<>>
    /\ remaining_iso = <<>>
    /\ assignments = <<>>
    /\ post_i = 0

StageBInit ==
    /\ fb_iso \in KnownLists
    /\ image_posts \in UNION { [1..n -> OcrPool] : n \in 1..MaxPosts }
    /\ remaining_dates = [k \in 1..Len(fb_iso) |-> IsoToOrdinal(fb_iso[k])]
    /\ remaining_iso = fb_iso
    /\ assignments = <<>>
    /\ post_i = 0

\* loop body when known dates remain
BAlign ==
    /\ post_i < Len(image_posts)
    /\ remaining_dates # <<>>
    /\ LET post == image_posts[post_i + 1]
           idx == find_best_fb_date(post, remaining_dates, remaining_iso)
           assigned_date == remaining_iso[idx + 1]
       IN  /\ remaining_dates' = SliceAfter(remaining_dates, idx)
           /\ remaining_iso' = SliceAfter(remaining_iso, idx)
           /\ assignments' = Append(assignments, [post |-> post_i + 1, date |-> assigned_date])
    /\ post_i' = post_i + 1
    /\ UNCHANGED <<fb_iso, image_posts, othersB>>

\* loop body when the known dates ran out
BExtrapolate ==
    /\ post_i < Len(image_posts)
    /\ remaining_dates = <<>>
    /\ assignments' =
          IF assignments # <<>>
          THEN Append(assignments,
                      [post |-> post_i + 1,
                       date |-> ExtrapolateBack(assignments[Len(assignments)].date)])
          ELSE assignments
    /\ post_i' = post_i + 1
    /\ UNCHANGED <<fb_iso, image_posts, remaining_dates, remaining_iso, othersB>>

NextB == BAlign \/ BExtrapolate

(***************************************************************************)
(* Stage A / Stage C: direct dates and interpolation (rename_images.py)    *)
(***************************************************************************)
MaxPostsC == 4     \* most posts explored by the Stage A/C model

\* a date string: "" / None, "YYYY-MM-DD", "YYYY-MM" or "unknown"
DateNone == [k |-> "none", y |-> 0, m |-> 0, d |-> 0]
DateUnknown == [k |-> "unknown", y |-> 0, m |-> 0, d |-> 0]
DayStr(y, m, d) == [k |-> "day", y |-> y, m |-> m, d |-> d]
MonthStr(y, m) == [k |-> "month", y |-> y, m |-> m, d |-> 0]

\* an OCR text, seen through the patterns of parse_date_from_ocr: what each finds
\*   full: Month Day, Year      abbr: Wkd, Mon Day Year     my: Month Year
\*   wmy:  Wkd, Month Year      rng:  Month Day and Day, Year
Text(full, abbr, my, wmy, rng) ==
    [full |-> full, abbr |-> abbr, my |-> my, wmy |-> wmy, rng |-> rng]
NoText == Text(NoMatch, NoMatch, NoMatch, NoMatch, NoMatch)

parse_date_from_ocr_day(t) ==
    IF t.full.hit THEN <<DayStr(t.full.y, t.full.m, t.full.d), "day">>
    ELSE IF t.abbr.hit THEN <<DayStr(t.abbr.y, t.abbr.m, t.abbr.d), "day">>
    ELSE IF t.my.hit /\ t.my.y >= YearLo /\ t.my.y <= YearHi
         THEN <<MonthStr(t.my.y, t.my.m), "day">>
    ELSE IF t.wmy.hit THEN <<MonthStr(t.wmy.y, t.wmy.m), "day">>
    ELSE IF t.rng.hit THEN <<DayStr(t.rng.y, t.rng.m, t.rng.d), "day">>
    ELSE <<DateNone, "none">>

\* returns <<date_str, precision>>; "none" stands for (None, None)
parse_date_from_ocr(t) ==
    IF t.full.hit THEN <<DayStr(t.full.y, t.full.m, t.full.d), "day">>
    ELSE IF t.abbr.hit THEN <<DayStr(t.abbr.y, t.abbr.m, t.abbr.d), "day">>
    ELSE IF t.my.hit /\ t.my.y >= YearLo /\ t.my.y <= YearHi
         THEN <<MonthStr(t.my.y, t.my.m), "month">>
    ELSE IF t.wmy.hit THEN <<MonthStr(t.wmy.y, t.wmy.m), "month">>
    ELSE IF t.rng.hit THEN <<DayStr(t.rng.y, t.rng.m, t.rng.d), "day">>
    ELSE <<DateNone, "none">>

PostC(date_parsed, ocr_text) == [date_parsed |-> date_parsed, ocr_text |-> ocr_text]

PostPoolC ==
    { PostC(DateNone, NoText),                                        \* no date evidence
      PostC(DayStr(2019, 1, 15), NoText),                             \* stored date
      PostC(DayStr(2018, 12, 31),
            Text(Match(2019, 1, 1), NoMatch, NoMatch, NoMatch, NoMatch)), \* stored wins
      PostC(DateNone, Text(Match(2019, 1, 1), NoMatch, NoMatch, NoMatch, NoMatch)),
      PostC(DateNone, Text(NoMatch, NoMatch, Match(2018, 12, 0), NoMatch, NoMatch)),
      PostC(DateNone, Text(Match(2019, 2, 30), NoMatch, NoMatch, NoMatch, NoMatch)) }

\* date_to_ordinal: defined when the string is a calendar date (else ValueError)
OrdinalRaises(ds) ==
    \/ ds.k = "day" /\ ~ValidDate(ds.y, ds.m, ds.d)
    \/ ds.k = "month" /\ ~ValidDate(ds.y, ds.m, 15)

date_to_ordinal(ds) ==
    IF ds.k = "day" THEN ToOrdinal(ds.y, ds.m, ds.d)
    ELSE IF ds.k = "month" THEN ToOrdinal(ds.y, ds.m, 15)
    ELSE 0

\* ordinal_to_date(o): datetime.fromordinal(int(o)).strftime("%Y-%m-%d")
ordinal_to_date(o) ==
    LET t == FromOrdinal(o) IN DayStr(t[1], t[2], t[3])

\* p["_date"] is truthy
Dated(ds) == ds.k # "none"

\* int(bo + frac * (ao - bo)) with frac = (idx - bi) / (ai - bi): the value is
\* positive, so int() is the floor; the float result equals the exact one for
\* ordinals and gaps of this size
InterpOrdWrongSign(idx, bi, bo, ai, ao) ==
    (bo * (ai - bi) - (idx - bi) * (ao - bo)) \div (ai - bi)

InterpOrd(idx, bi, bo, ai, ao) ==
    (bo * (ai - bi) + (idx - bi) * (ao - bo)) \div (ai - bi)

ExtrapolateOlderWrongStep(bo, gap) == bo - gap

\* only a newer known date: bo - gap * 14
ExtrapolateOlder(bo, gap) == bo - gap * StepDays

\* only an older known date: ao + gap * 14
ExtrapolateNewer(ao, gap) == ao + gap * StepDays

BeforeOfNone(kn, idx) == <<>>

\* the scan of `known` for the nearest dated neighbours of post idx
BeforeOf(kn, idx) ==
    LET c == { k \in 1..Len(kn) : kn[k][1] < idx }
    IN  IF c = {} THEN <<>> ELSE kn[CHOOSE k \in c : \A j \in c : j <= k]

AfterOf(kn, idx) ==
    LET c == { k \in 1..Len(kn) : kn[k][1] > idx }
    IN  IF c = {} THEN <<>> ELSE kn[CHOOSE k \in c : \A j \in c : k <= j]

IdleC ==
    /\ posts_chrono = <<>>
    /\ p_date = <<>>
    /\ p_precision = <<>>
    /\ p_source = <<>>
    /\ known = <<>>
    /\ pcC = "idle"
    /\ ci = 0

StageCInit ==
    /\ posts_chrono \in UNION { [1..n -> PostPoolC] : n \in 1..MaxPostsC }
    /\ p_date = [i \in 1..Len(posts_chrono) |-> DateNone]
    /\ p_precision = [i \in 1..Len(posts_chrono) |-> "none"]
    /\ p_source = [i \in 1..Len(posts_chrono) |-> "none"]
    /\ known = <<>>
    /\ pcC = "phase1"
    /\ ci = 0

\* Phase 1, one post that has a stored date_parsed
Phase1Parsed ==
    /\ pcC = "phase1"
    /\ ci < Len(posts_chrono)
    /\ Dated(posts_chrono[ci + 1].date_parsed)
    /\ p_date' = [p_date EXCEPT ![ci + 1] = posts_chrono[ci + 1].date_parsed]
    /\ p_precision' = [p_precision EXCEPT ![ci + 1] = "day"]
    /\ p_source' = [p_source EXCEPT ![ci + 1] = "parsed"]
    /\ ci' = ci + 1
    /\ UNCHANGED <<posts_chrono, known, pcC, othersC>>

\* Phase 1, one post without a stored date: try its OCR text
Phase1Ocr ==
    /\ pcC = "phase1"
    /\ ci < Len(posts_chrono)
    /\ ~Dated(posts_chrono[ci + 1].date_parsed)
    /\ LET r == parse_date_from_ocr(posts_chrono[ci + 1].ocr_text)
       IN  IF Dated(r[1])
           THEN /\ p_date' = [p_date EXCEPT ![ci + 1] = r[1]]
                /\ p_precision' = [p_precision EXCEPT ![ci + 1] = r[2]]
                /\ p_source' = [p_source EXCEPT ![ci + 1] = "ocr"]
           ELSE UNCHANGED <<p_date, p_precision, p_source>>
    /\ ci' = ci + 1
    /\ UNCHANGED <<posts_chrono, known, pcC, othersC>>

RECURSIVE KnownFrom(_, _)
\* the (chrono_idx, ordinal) pairs of the dated posts from position i on
KnownFrom(dates, i) ==
    IF i > Len(dates) THEN <<>>
    ELSE IF Dated(dates[i]) /\ date_to_ordinal(dates[i]) # 0
         THEN <<(<<i, date_to_ordinal(dates[i])>>)>> \o KnownFrom(dates, i + 1)
         ELSE KnownFrom(dates, i + 1)

\* build and sort the list of known dates
BuildKnown ==
    /\ pcC = "phase1"
    /\ ci = Len(posts_chrono)
    /\ \A i \in 1..Len(p_date) : ~OrdinalRaises(p_date[i])
    /\ known' = KnownFrom(p_date, 1)
    /\ pcC' = "phase2"
    /\ ci' = 0
    /\ UNCHANGED <<posts_chrono, p_date, p_precision, p_source, othersC>>

\* date_to_ordinal raises ValueError on a string that is no calendar date:
\* nothing catches it and the script ends
BuildKnownRaises ==
    /\ pcC = "phase1"
    /\ ci = Len(posts_chrono)
    /\ \E i \in 1..Len(p_date) : OrdinalRaises(p_date[i])
    /\ pcC' = "raised"
    /\ UNCHANGED <<posts_chrono, p_date, p_precision, p_source, known, ci, othersC>>

\* Phase 2, one post that already has a date
Phase2Skip ==
    /\ pcC = "phase2"
    /\ ci < Len(posts_chrono)
    /\ Dated(p_date[ci + 1])
    /\ ci' = ci + 1
    /\ UNCHANGED <<posts_chrono, p_date, p_precision, p_source, known, pcC, othersC>>

\* Phase 2, one undated post
Phase2Fill ==
    /\ pcC = "phase2"
    /\ ci < Len(posts_chrono)
    /\ ~Dated(p_date[ci + 1])
    /\ LET idx == ci + 1
           before == BeforeOf(known, idx)
           after == AfterOf(known, idx)
       IN  IF before # <<>> /\ after # <<>>
           THEN /\ p_date' = [p_date EXCEPT ![idx] =
                      ordinal_to_date(InterpOrd(idx, before[1], before[2],
                                                after[1], after[2]))]
                /\ p_precision' = [p_precision EXCEPT ![idx] = "estimated"]
                /\ p_source' = [p_source EXCEPT ![idx] = "interpolated"]
           ELSE IF before # <<>>
           THEN /\ p_date' = [p_date EXCEPT ![idx] =
                      ordinal_to_date(ExtrapolateOlder(before[2], idx - before[1]))]
                /\ p_precision' = [p_precision EXCEPT ![idx] = "estimated"]
                /\ p_source' = [p_source EXCEPT ![idx] = "extrapolated"]
           ELSE IF after # <<>>
           THEN /\ p_date' = [p_date EXCEPT ![idx] =
                      ordinal_to_date(ExtrapolateNewer(after[2], after[1] - idx))]
                /\ p_precision' = [p_precision EXCEPT ![idx] = "estimated"]
                /\ p_source' = [p_source EXCEPT ![idx] = "extrapolated"]
           ELSE /\ p_date' = [p_date EXCEPT ![idx] = DateUnknown]
                /\ p_precision' = [p_precision EXCEPT ![idx] = "none"]
                /\ p_source' = [p_source EXCEPT ![idx] = "none"]
    /\ ci' = ci + 1
    /\ UNCHANGED <<posts_chrono, known, pcC, othersC>>

Phase2Done ==
    /\ pcC = "phase2"
    /\ ci = Len(posts_chrono)
    /\ pcC' = "done"
    /\ UNCHANGED <<posts_chrono, p_date, p_precision, p_source, known, ci, othersC>>

NextC ==
    \/ Phase1Parsed \/ Phase1Ocr \/ BuildKnown \/ BuildKnownRaises
    \/ Phase2Skip \/ Phase2Fill \/ Phase2Done


(***************************************************************************)
(* Divider detection and post segmentation                                 *)
(*   process_chunks.py   find_dividers_in_chunk, process_one_chunk         *)
(*   extract_chunks.py   find_post_regions                                 *)
(*   extract_facebook.py find_post_boundaries                              *)
(* An image is given by its rows' divider flags (row mean/std against the  *)
(* thresholds), run-length encoded: a run [div, len] is len equal rows.    *)
(* Adjacent runs may carry the same flag.  The row loop of the detectors   *)
(* is taken one run at a time: within a run only the first row changes     *)
(* in_gap / gap_start / gaps.                                              *)
(***************************************************************************)
MaxRuns == 4       \* most runs in an image

Run(div, len) == [div |-> div, len |-> len]

\* run lengths around the detectors' and segmenters' thresholds (8, 15, 50, 80, 100)
SegLens == {7, 8, 50, 80}

SegImages == UNION { [1..n -> { Run(b, l) : b \in BOOLEAN, l \in SegLens }] : n \in 1..MaxRuns }

RECURSIVE RunStart(_, _)
\* first row of run k (k = Len + 1 gives the height)
RunStart(im, k) == IF k = 1 THEN 0 ELSE RunStart(im, k - 1) + im[k - 1].len

\* h of img_array.shape[:2]
Height(im) == RunStart(im, Len(im) + 1)

\* is_div[y]
IsDivRow(im, y) ==
    \E k \in 1..Len(im) :
        RunStart(im, k) <= y /\ y < RunStart(im, k + 1) /\ im[k].div

RECURSIVE ScanRows(_, _, _, _, _, _)
\* for y in range(h): ... ; the loop state after the rows of runs k..Len
ScanRows(im, k, in_gap, gap_start, found, min_height) ==
    IF k > Len(im) THEN [in_gap |-> in_gap, gap_start |-> gap_start, found |-> found]
    ELSE LET y == RunStart(im, k)
         IN  IF im[k].div
             THEN ScanRows(im, k + 1, TRUE, IF in_gap THEN gap_start ELSE y,
                           found, min_height)
             ELSE ScanRows(im, k + 1, FALSE, gap_start,
                           IF in_gap /\ y - gap_start >= min_height
                           THEN Append(found, <<gap_start, y>>) ELSE found,
                           min_height)

\* the loop without the check after it
GapsNoTrailing(im, min_height) == ScanRows(im, 1, FALSE, 0, <<>>, min_height).found

\* the loop and `if in_gap and h - gap_start >= min_height: gaps.append((gap_start, h))`
GapsWithTrailing(im, min_height) ==
    LET st == ScanRows(im, 1, FALSE, 0, <<>>, min_height)
    IN  IF st.in_gap /\ Height(im) - st.gap_start >= min_height
        THEN Append(st.found, <<st.gap_start, Height(im)>>)
        ELSE st.found

\* default arguments of the detectors
MinHeightPC == 8       \* find_dividers_in_chunk(min_height=8)
MinGapEC == 8          \* find_post_regions(min_gap=8)
MinPostEC == 80        \* find_post_regions(min_post_height=80)
MinGapFB == 15         \* find_post_boundaries(min_gap=15)
MinPostFB == 100       \* find_post_boundaries(min_post_height=100)
MinRegionPC == 50      \* process_one_chunk: gap_start - prev > 50

\* process_chunks.py
find_dividers_in_chunk(im) == GapsWithTrailing(im, MinHeightPC)

\* extract_chunks.py, first half of find_post_regions
find_post_regions_gaps(im) == GapsWithTrailing(im, MinGapEC)

\* extract_facebook.py, first half of find_post_boundaries: no check after the loop
find_post_boundaries_gaps(im) == GapsNoTrailing(im, MinGapFB)

\* the height tests of the three segmenters: [min, strict]
KeepPC == [min |-> MinRegionPC, strict |-> TRUE]     \* gap_start - prev > 50
KeepEC == [min |-> MinPostEC, strict |-> FALSE]      \* gs - prev_end >= min_post_height
KeepFB == [min |-> MinPostFB, strict |-> FALSE]

Keeps(keep, height) == IF keep.strict THEN height > keep.min ELSE height >= keep.min

RECURSIVE RegionLoopPrevStart(_, _, _, _, _)
RegionLoopPrevStart(gs, k, prev, acc, keep) ==
    IF k > Len(gs) THEN <<acc, prev>>
    ELSE RegionLoopPrevStart(gs, k + 1, gs[k][1],
                    IF Keeps(keep, gs[k][1] - prev) THEN Append(acc, <<prev, gs[k][1]>>) ELSE acc,
                    keep)

RECURSIVE RegionLoop(_, _, _, _, _)
\* prev = 0; for gs, ge in gaps: if keeps(gs - prev): append((prev, gs)); prev = ge
\* returns <<regions, prev>>
RegionLoop(gs, k, prev, acc, keep) ==
    IF k > Len(gs) THEN <<acc, prev>>
    ELSE RegionLoop(gs, k + 1, gs[k][2],
                    IF Keeps(keep, gs[k][1] - prev) THEN Append(acc, <<prev, gs[k][1]>>) ELSE acc,
                    keep)

\* the loop and the last section `if keeps(h - prev): append((prev, h))`
RegionsBetween(gs, h, keep) ==
    LET r == RegionLoop(gs, 1, 0, <<>>, keep)
    IN  IF Keeps(keep, h - r[2]) THEN Append(r[1], <<r[2], h>>) ELSE r[1]


\* process_one_chunk: the whole chunk only when there is no divider at all
process_one_chunk_regions(gs, h) ==
    IF gs # <<>> THEN RegionsBetween(gs, h, KeepPC) ELSE << <<0, h>> >>

\* find_post_regions: `if not posts: posts = [(0, h)]`
find_post_regions(gs, h) ==
    LET posts == RegionsBetween(gs, h, KeepEC)
    IN  IF posts = <<>> THEN << <<0, h>> >> ELSE posts

\* find_post_boundaries: the same with its own thresholds
find_post_boundaries(gs, h) ==
    LET posts == RegionsBetween(gs, h, KeepFB)
    IN  IF posts = <<>> THEN << <<0, h>> >> ELSE posts

IdleS ==
    /\ img = <<>>
    /\ variant = "none"
    /\ pcS = "idle"
    /\ gaps = <<>>
    /\ regions = <<>>
    /\ cut_points = <<>>
    /\ chunks = <<>>

SegInit ==
    /\ img \in SegImages
    /\ variant \in {"process_chunks", "extract_chunks", "extract_facebook"}
    /\ pcS = "start"
    /\ gaps = <<>>
    /\ regions = <<>>
    /\ cut_points = <<>>
    /\ chunks = <<>>

\* process_chunks.py: dividers = find_dividers_in_chunk(img_array); build regions
SegProcessChunks ==
    /\ pcS = "start"
    /\ variant = "process_chunks"
    /\ gaps' = find_dividers_in_chunk(img)
    /\ regions' = process_one_chunk_regions(find_dividers_in_chunk(img), Height(img))
    /\ pcS' = "done"
    /\ UNCHANGED <<img, variant, cut_points, chunks, othersS>>

\* extract_chunks.py: post_regions = find_post_regions(img_array)
SegExtractChunks ==
    /\ pcS = "start"
    /\ variant = "extract_chunks"
    /\ gaps' = find_post_regions_gaps(img)
    /\ regions' = find_post_regions(find_post_regions_gaps(img), Height(img))
    /\ pcS' = "done"
    /\ UNCHANGED <<img, variant, cut_points, chunks, othersS>>

\* extract_facebook.py: find_post_boundaries(img_array)
SegExtractFacebook ==
    /\ pcS = "start"
    /\ variant = "extract_facebook"
    /\ gaps' = find_post_boundaries_gaps(img)
    /\ regions' = find_post_boundaries(find_post_boundaries_gaps(img), Height(img))
    /\ pcS' = "done"
    /\ UNCHANGED <<img, variant, cut_points, chunks, othersS>>

NextSeg == SegProcessChunks \/ SegExtractChunks \/ SegExtractFacebook


(***************************************************************************)
(* Chunk planning (split_pngs.py)                                          *)
(***************************************************************************)
MIN_DIVIDER_HEIGHT == 8
MAX_CHUNK_HEIGHT == 2000
MinChunkRows == 20     \* split_png: `if chunk_h < 20: continue`

\* run lengths around MIN_DIVIDER_HEIGHT, the 20-row floor and MAX_CHUNK_HEIGHT
SplitLens == {7, 8, 30, 2000}

SplitImages ==
    UNION { [1..n -> { Run(b, l) : b \in BOOLEAN, l \in SplitLens }] : n \in 1..MaxRuns }

\* find_post_dividers: the same row loop; a gap is (center, gap_start, gap_end)
find_post_dividers(im) ==
    LET found == GapsWithTrailing(im, MIN_DIVIDER_HEIGHT)
    IN  [k \in 1..Len(found) |->
            <<found[k][1] + ((found[k][2] - found[k][1]) \div 2), found[k][1], found[k][2]>>]

RECURSIVE CutLoop(_, _, _, _, _)
\* for center_y, gap_start, gap_end in dividers: cut when center_y - last_cut_y >= max_chunk
CutLoop(dividers, k, last_cut_y, cuts, max_chunk) ==
    IF k > Len(dividers) THEN cuts
    ELSE IF dividers[k][1] - last_cut_y >= max_chunk
         THEN CutLoop(dividers, k + 1, dividers[k][1], Append(cuts, dividers[k][1]), max_chunk)
         ELSE CutLoop(dividers, k + 1, last_cut_y, cuts, max_chunk)

plan_cuts(dividers, img_height, max_chunk) ==
    IF dividers = <<>> THEN <<>> ELSE CutLoop(dividers, 1, 0, <<>>, max_chunk)

RECURSIVE ChunkLoopNoSkip(_, _, _)
ChunkLoopNoSkip(boundaries, idx, acc) ==
    IF idx > Len(boundaries) - 1 THEN acc
    ELSE ChunkLoopNoSkip(boundaries, idx + 1,
                         Append(acc, [chunk_index |-> idx - 1, y_start |-> boundaries[idx],
                                      y_end |-> boundaries[idx + 1]]))

RECURSIVE ChunkLoop(_, _, _)
\* for idx in range(len(boundaries) - 1): skip chunks under 20 rows, record the rest
ChunkLoop(boundaries, idx, acc) ==
    IF idx > Len(boundaries) - 1 THEN acc
    ELSE LET y_start == boundaries[idx]
             y_end == boundaries[idx + 1]
         IN  ChunkLoop(boundaries, idx + 1,
                       IF y_end - y_start < MinChunkRows THEN acc
                       ELSE Append(acc, [chunk_index |-> idx - 1,
                                         y_start |-> y_start, y_end |-> y_end]))

SplitInit ==
    /\ img \in SplitImages
    /\ variant = "split_pngs"
    /\ pcS = "start"
    /\ gaps = <<>>
    /\ regions = <<>>
    /\ cut_points = <<>>
    /\ chunks = <<>>

\* split_png: find the dividers, plan the cuts, write the chunks
SplitPng ==
    /\ pcS = "start"
    /\ variant = "split_pngs"
    /\ LET dividers == find_post_dividers(img)
           cuts == plan_cuts(dividers, Height(img), MAX_CHUNK_HEIGHT)
           boundaries == <<0>> \o cuts \o <<Height(img)>>
       IN  /\ gaps' = dividers
           /\ cut_points' = cuts
           /\ chunks' = ChunkLoop(boundaries, 1, <<>>)
    /\ pcS' = "done"
    /\ UNCHANGED <<img, variant, regions, othersS>>

NextSplit == SplitPng

(***************************************************************************)
(* Checkpointed unit loop (process_chunks.py main, extract_chunks.py main) *)
(***************************************************************************)
NumUnits == 2          \* chunks listed in the manifest
MaxRunCount == 2       \* script invocations in one behaviour
MaxCrashes == 1        \* of which cut short by a crash
MaxWriteFailures == 1  \* checkpoint writes that raise in one behaviour

\* manifest["chunks"]: split_pngs names every chunk file differently
manifest_chunks == [k \in 1..NumUnits |-> k]
Units == 1..NumUnits

Missing == [state |-> "missing", data |-> {}]
Complete(content) == [state |-> "complete", data |-> content]
Exists(f) == disk[f].state # "missing"
\* json.load succeeds only on a completely written file
Loadable(f) == disk[f].state = "complete"

\* timeline["stats"]: {} in a new timeline, else the totals last computed
NoStats == [present |-> FALSE, total_posts_extracted |-> 0, chunks_processed |-> 0]
Stats(posts, completed) ==
    [present |-> TRUE, total_posts_extracted |-> Len(posts),
     chunks_processed |-> Cardinality(completed)]

\* the timeline dict: its posts (the unit each came from) and its stats
Timeline(posts, st) == [posts |-> posts, stats |-> st]
FreshTimeline == Timeline(<<>>, NoStats)
NoAttempts == [u \in Units |-> 0]
NoOutcome == [u \in Units |-> "none"]

\* process_chunks.load_progress: a missing, empty or corrupt file gives no progress
load_progress == IF Loadable("progress") THEN disk["progress"].data ELSE {}

\* process_chunks main: timeline.json is reused when it loads, else started fresh
load_timeline == IF Loadable("timeline") THEN disk["timeline"].data ELSE FreshTimeline

InitialProgressKept(force) == load_progress

\* process_chunks main, lines 409-411 and 424-425: --force resets the progress
InitialProgress(force) == IF force THEN {} ELSE load_progress

\* lines 412-423 and 426-453: --force starts a new timeline
InitialTimeline(force) == IF force THEN FreshTimeline ELSE load_timeline

SkipsNothing(chunk_file, done, force) == FALSE

\* process_chunks: `if chunk_file in done_set and not force`
Skips(chunk_file, done, force) == chunk_file \in done /\ ~force

\* extract_chunks: remaining = [c for c in chunks if c["file"] not in completed_chunks]
Remaining(completed) == SelectSeq(manifest_chunks, LAMBDA c : c \notin completed)

ContentOfFresh(which) == IF which = "progress" THEN done_set ELSE FreshTimeline

\* what a save writes: the completed set or the timeline held in memory
ContentOf(which) == IF which = "progress" THEN done_set ELSE Timeline(timeline, stats)
TmpOf(which) == IF which = "progress" THEN "progress.tmp" ELSE "timeline.tmp"

\* nothing on disk, no run started
NoRun ==
    /\ resume = FALSE
    /\ disk = [f \in {"progress", "timeline", "progress.tmp", "timeline.tmp"} |-> Missing]
    /\ done_set = {}
    /\ timeline = <<>>
    /\ stats = NoStats
    /\ remaining = <<>>
    /\ unit_i = 0
    /\ pcR = "idle"
    /\ saving = "none"
    /\ save_pc = "none"
    /\ in_except = FALSE
    /\ attempts = NoAttempts
    /\ outcome = NoOutcome
    /\ kept_posts = <<>>
    /\ loaded = {}
    /\ timeline_loaded = <<>>
    /\ ever_saved = {}
    /\ write_failed = FALSE
    /\ runs = 0
    /\ crashes = 0
    /\ write_failures = 0

IdleR == script = "none" /\ NoRun

\* the output directory starts empty; either script may be the one in use
RunInit == script \in {"process_chunks", "extract_chunks"} /\ NoRun

history == <<ever_saved, runs, crashes, write_failures>>

\* the operator starts the script, with or without the flag that selects resume
\* (process_chunks resumes unless --force; extract_chunks resumes only with --resume)
StartRun ==
    /\ pcR \in {"idle", "finished", "crashed", "aborted"}
    /\ runs < MaxRunCount
    /\ runs' = runs + 1
    /\ resume' \in BOOLEAN
    /\ pcR' = "load"
    /\ loaded' = (IF Loadable("progress") THEN disk["progress"].data ELSE {})
    /\ timeline_loaded' = (IF Loadable("timeline") THEN disk["timeline"].data.posts ELSE <<>>)
    /\ outcome' = NoOutcome
    /\ kept_posts' = <<>>
    /\ attempts' = NoAttempts
    /\ write_failed' = FALSE
    /\ UNCHANGED <<script, disk, done_set, timeline, stats, remaining, unit_i, saving, save_pc,
                   in_except, ever_saved, crashes, write_failures, othersR>>

\* process_chunks main, lines 409-453: load or reset progress and timeline
PLoad ==
    /\ pcR = "load"
    /\ script = "process_chunks"
    /\ LET force == ~resume
           progress == InitialProgress(force)
           tl == InitialTimeline(force)
       IN  /\ done_set' = progress
           /\ timeline' = tl.posts
           /\ stats' = tl.stats
    /\ unit_i' = 1
    /\ pcR' = "loop"
    /\ UNCHANGED <<kept_posts, script, resume, disk, remaining, saving, save_pc, in_except, attempts,
                   outcome, loaded, timeline_loaded, write_failed, history, othersR>>

\* extract_chunks main, lines 434-457: json.load is unguarded, so a progress or
\* timeline file that does not parse ends the run with an exception
ELoad ==
    /\ pcR = "load"
    /\ script = "extract_chunks"
    /\ IF resume /\ Exists("progress")
       THEN IF ~Loadable("progress") \/ (Exists("timeline") /\ ~Loadable("timeline"))
            THEN /\ pcR' = "aborted"
                 /\ UNCHANGED <<done_set, timeline, stats, remaining, unit_i>>
            ELSE LET completed_chunks == disk["progress"].data
                     tl == IF Exists("timeline") THEN disk["timeline"].data ELSE FreshTimeline
                 IN  /\ done_set' = completed_chunks
                     /\ timeline' = tl.posts
                     /\ stats' = tl.stats
                     /\ remaining' = Remaining(completed_chunks)
                     /\ unit_i' = 1
                     /\ pcR' = "loop"
       ELSE /\ done_set' = {}
            /\ timeline' = FreshTimeline.posts
            /\ stats' = FreshTimeline.stats
            /\ remaining' = Remaining({})
            /\ unit_i' = 1
            /\ pcR' = "loop"
    /\ UNCHANGED <<kept_posts, script, resume, disk, saving, save_pc, in_except, attempts, outcome,
                   loaded, timeline_loaded, write_failed, history, othersR>>

\* the unit the loop is at
AtUnit == IF script = "process_chunks" THEN unit_i <= NumUnits ELSE unit_i <= Len(remaining)
chunk_file == IF script = "process_chunks" THEN manifest_chunks[unit_i] ELSE remaining[unit_i]

\* the first file each script saves after a unit
\* (process_chunks: progress then timeline; extract_chunks: timeline then progress)
FirstSave == IF script = "process_chunks" THEN "progress" ELSE "timeline"
FirstStep == IF script = "process_chunks" THEN "tmp" ELSE "open"

\* process_chunks lines 471-473: `continue` on a completed chunk
Skip ==
    /\ pcR = "loop"
    /\ script = "process_chunks"
    /\ AtUnit
    /\ Skips(chunk_file, done_set, ~resume)
    /\ unit_i' = unit_i + 1
    /\ UNCHANGED <<kept_posts, script, resume, disk, done_set, timeline, stats, remaining, pcR, saving,
                   save_pc, in_except, attempts, outcome, loaded, timeline_loaded,
                   write_failed, history, othersR>>

\* the try body: the unit is processed, its posts are merged, its id is recorded;
\* extract_chunks recomputes the stats right after the try statement
ProcessOk ==
    /\ pcR = "loop"
    /\ AtUnit
    /\ script = "process_chunks" => ~Skips(chunk_file, done_set, ~resume)
    /\ attempts' = [attempts EXCEPT ![chunk_file] = @ + 1]
    /\ outcome' = [outcome EXCEPT ![chunk_file] = "ok"]
    /\ timeline' = Append(timeline, chunk_file)
    /\ done_set' = done_set \cup {chunk_file}
    /\ stats' = (IF script = "extract_chunks" THEN Stats(timeline', done_set') ELSE stats)
    /\ pcR' = "save"
    /\ saving' = FirstSave
    /\ save_pc' = FirstStep
    /\ UNCHANGED <<kept_posts, script, resume, disk, remaining, unit_i, in_except, loaded, timeline_loaded,
                   write_failed, history, othersR>>

ProcessRaiseMarksDone ==
    /\ pcR = "loop"
    /\ AtUnit
    /\ script = "process_chunks" => ~Skips(chunk_file, done_set, ~resume)
    /\ attempts' = [attempts EXCEPT ![chunk_file] = @ + 1]
    /\ outcome' = [outcome EXCEPT ![chunk_file] = "raised"]
    /\ kept_posts' = timeline
    /\ done_set' = done_set \cup {chunk_file}
    /\ stats' = (IF script = "extract_chunks" THEN Stats(timeline, done_set) ELSE stats)
    /\ in_except' = (script = "process_chunks")
    /\ pcR' = "save"
    /\ saving' = FirstSave
    /\ save_pc' = FirstStep
    /\ UNCHANGED <<script, resume, disk, timeline, remaining, unit_i, loaded,
                   timeline_loaded, write_failed, history, othersR>>

\* processing raised: nothing is merged; process_chunks saves both files in the
\* except branch, extract_chunks falls through to the stats and the writes
ProcessRaise ==
    /\ pcR = "loop"
    /\ AtUnit
    /\ script = "process_chunks" => ~Skips(chunk_file, done_set, ~resume)
    /\ attempts' = [attempts EXCEPT ![chunk_file] = @ + 1]
    /\ outcome' = [outcome EXCEPT ![chunk_file] = "raised"]
    /\ kept_posts' = timeline
    /\ stats' = (IF script = "extract_chunks" THEN Stats(timeline, done_set) ELSE stats)
    /\ in_except' = (script = "process_chunks")
    /\ pcR' = "save"
    /\ saving' = FirstSave
    /\ save_pc' = FirstStep
    /\ UNCHANGED <<script, resume, disk, done_set, timeline, remaining, unit_i, loaded,
                   timeline_loaded, write_failed, history, othersR>>

LoopEnd ==
    /\ pcR = "loop"
    /\ ~AtUnit
    /\ pcR' = "finished"
    /\ UNCHANGED <<kept_posts, script, resume, disk, done_set, timeline, stats, remaining, unit_i, saving,
                   save_pc, in_except, attempts, outcome, loaded, timeline_loaded,
                   write_failed, history, othersR>>

\* control after a save returns: the second file, or the next unit; in the try
\* body process_chunks recomputes timeline["stats"] between its two saves
AfterSave ==
    IF saving = FirstSave
    THEN /\ saving' = (IF FirstSave = "progress" THEN "timeline" ELSE "progress")
         /\ save_pc' = FirstStep
         /\ stats' = (IF script = "process_chunks" /\ ~in_except
                      THEN Stats(timeline, done_set) ELSE stats)
         /\ UNCHANGED <<pcR, unit_i, in_except>>
    ELSE /\ saving' = "none"
         /\ save_pc' = "none"
         /\ pcR' = "loop"
         /\ unit_i' = unit_i + 1
         /\ in_except' = FALSE
         /\ UNCHANGED stats

inMemory == <<script, resume, done_set, timeline, remaining, attempts, outcome, kept_posts, loaded,
              timeline_loaded, write_failed>>

\* a step inside a save changes neither the stats nor the position in the loop
inSave == <<stats, unit_i, pcR, saving, in_except>>

\* save_progress / save_timeline: write <file>.tmp, flush, fsync
SaveWriteTmp ==
    /\ pcR = "save"
    /\ save_pc = "tmp"
    /\ disk' = [disk EXCEPT ![TmpOf(saving)] = Complete(ContentOf(saving))]
    /\ save_pc' = "remove"
    /\ UNCHANGED <<inMemory, inSave, history, othersR>>

\* if os.path.exists(final): os.remove(final)
SaveRemove ==
    /\ pcR = "save"
    /\ save_pc = "remove"
    /\ disk' = [disk EXCEPT ![saving] = Missing]
    /\ save_pc' = "rename"
    /\ UNCHANGED <<inMemory, inSave, history, othersR>>

\* os.rename(tmp, final)
SaveRename ==
    /\ pcR = "save"
    /\ save_pc = "rename"
    /\ disk' = [disk EXCEPT ![saving] = disk[TmpOf(saving)], ![TmpOf(saving)] = Missing]
    /\ ever_saved' = ever_saved \cup {saving}
    /\ AfterSave
    /\ UNCHANGED <<inMemory, runs, crashes, write_failures, othersR>>

\* os.remove or os.rename raised OSError: fall back to shutil.copy2(tmp, final)
SaveOSError ==
    /\ pcR = "save"
    /\ save_pc \in {"remove", "rename"}
    /\ save_pc' = "copy_open"
    /\ UNCHANGED <<inMemory, inSave, disk, history, othersR>>

\* copy2 opens the final path for writing, which truncates it
SaveCopyOpen ==
    /\ pcR = "save"
    /\ save_pc = "copy_open"
    /\ disk' = [disk EXCEPT ![saving] = [state |-> "empty", data |-> {}]]
    /\ save_pc' = "copy_write"
    /\ UNCHANGED <<inMemory, inSave, history, othersR>>

SaveCopyWrite ==
    /\ pcR = "save"
    /\ save_pc = "copy_write"
    /\ disk' = [disk EXCEPT ![saving] = disk[TmpOf(saving)]]
    /\ ever_saved' = ever_saved \cup {saving}
    /\ AfterSave
    /\ UNCHANGED <<inMemory, runs, crashes, write_failures, othersR>>

\* extract_chunks lines 508-512: open(final, 'w') truncates the file in place
PlainOpen ==
    /\ pcR = "save"
    /\ save_pc = "open"
    /\ disk' = [disk EXCEPT ![saving] = [state |-> "empty", data |-> {}]]
    /\ save_pc' = "write"
    /\ UNCHANGED <<inMemory, inSave, history, othersR>>

\* json.dump and close
PlainWrite ==
    /\ pcR = "save"
    /\ save_pc = "write"
    /\ disk' = [disk EXCEPT ![saving] = Complete(ContentOf(saving))]
    /\ ever_saved' = ever_saved \cup {saving}
    /\ AfterSave
    /\ UNCHANGED <<inMemory, runs, crashes, write_failures, othersR>>

\* the process ends (crash or uncaught exception): what it held in memory is gone
MemoryLost ==
    /\ done_set' = {}
    /\ timeline' = <<>>
    /\ stats' = NoStats
    /\ remaining' = <<>>
    /\ unit_i' = 0
    /\ saving' = "none"
    /\ save_pc' = "none"
    /\ in_except' = FALSE
    /\ attempts' = NoAttempts
    /\ kept_posts' = <<>>
    /\ loaded' = {}
    /\ timeline_loaded' = <<>>

Partial == [state |-> "partial", data |-> {}]

\* process_chunks: writing <file>.tmp, or the copy2 fallback, raises (disk full,
\* permission).  In the try body the `except Exception` of the unit catches it
\* and saves both files again; in the except branch nothing catches it.
SaveFails ==
    /\ pcR = "save"
    /\ save_pc \in {"tmp", "copy_write"}
    /\ write_failures < MaxWriteFailures
    /\ write_failures' = write_failures + 1
    /\ write_failed' = TRUE
    /\ disk' = [disk EXCEPT ![IF save_pc = "tmp" THEN TmpOf(saving) ELSE saving] = Partial]
    /\ IF ~in_except
       THEN /\ in_except' = TRUE
            /\ saving' = "progress"
            /\ save_pc' = "tmp"
            /\ UNCHANGED <<kept_posts, done_set, timeline, stats, remaining, unit_i, pcR, attempts,
                           loaded, timeline_loaded>>
       ELSE /\ pcR' = "aborted"
            /\ MemoryLost
    /\ UNCHANGED <<script, resume, outcome, ever_saved, runs, crashes, othersR>>

\* extract_chunks: open or json.dump raises outside any try, the run ends
PlainFails ==
    /\ pcR = "save"
    /\ save_pc \in {"open", "write"}
    /\ write_failures < MaxWriteFailures
    /\ write_failures' = write_failures + 1
    /\ write_failed' = TRUE
    /\ disk' = (IF save_pc = "write" THEN [disk EXCEPT ![saving] = Partial] ELSE disk)
    /\ pcR' = "aborted"
    /\ MemoryLost
    /\ UNCHANGED <<script, resume, outcome, ever_saved, runs, crashes, othersR>>

\* the process dies (kill, power loss): memory is gone, the disk stays as it is;
\* a file that was being written in place holds nothing or a prefix of the new content
Crash ==
    /\ pcR \in {"load", "loop", "save"}
    /\ crashes < MaxCrashes
    /\ crashes' = crashes + 1
    /\ IF save_pc \in {"write", "copy_write"}
       THEN \E st \in {"empty", "partial"} :
                disk' = [disk EXCEPT ![saving] = [state |-> st, data |-> {}]]
       ELSE disk' = disk
    /\ pcR' = "crashed"
    /\ MemoryLost
    /\ UNCHANGED <<script, resume, outcome, ever_saved, write_failed, runs, write_failures,
                   othersR>>

NextRun ==
    \/ StartRun
    \/ PLoad
    \/ ELoad
    \/ Skip
    \/ ProcessOk
    \/ ProcessRaise
    \/ LoopEnd
    \/ SaveWriteTmp
    \/ SaveRemove
    \/ SaveRename
    \/ SaveOSError
    \/ SaveCopyOpen
    \/ SaveCopyWrite
    \/ SaveFails
    \/ PlainOpen
    \/ PlainWrite
    \/ PlainFails
    \/ Crash

(***************************************************************************)
(* Content signals: detect_signals of process_chunks.py and of             *)
(* extract_chunks.py, detect_content_signals of extract_facebook.py.       *)
(* A text is described by what the keyword tests and the two photo-count   *)
(* patterns can see in it: which keywords occur, and, in reading order,    *)
(* the "<digits> photo|image|pic" mentions with or without a leading "+".  *)
(* A piece of text such as "+12 photos" is the record                      *)
(* [plus, n, word, plural]; the hint is such a piece of text as well.      *)
(***************************************************************************)
MaxMentions == 2

Piece(plus, n, word, plural) == [plus |-> plus, n |-> n, word |-> word, plural |-> plural]

NoHint == Piece(FALSE, 0, "", FALSE)

MentionPool ==
    { Piece(TRUE, 12, "photo", TRUE), Piece(TRUE, 2, "photo", TRUE),
      Piece(FALSE, 12, "photo", TRUE), Piece(FALSE, 3, "photo", TRUE),
      Piece(FALSE, 5, "pic", FALSE) }

MentionSeqs == UNION { [1..k -> MentionPool] : k \in 0..MaxMentions }

TextPool ==
    [ video : BOOLEAN, glyph : BOOLEAN, checkin : {"", "check", "checked in", "was at"},
      share : {"", "share", "shared"}, photo : BOOLEAN, album : BOOLEAN,
      mentions : MentionSeqs ]

Scripts3 == {"process_chunks", "extract_chunks", "extract_facebook"}

\* "video" in tl or "watch" in tl
HasVideoWord(t) == t.video

\* the play glyphs that extract_chunks also looks for
HasPlayGlyph(t) == t.glyph

\* any of "checked in", "was at", "was here" in tl
HasCheckinPhrase(t) == t.checkin \in {"checked in", "was at"}

\* "check" in tl
HasCheck(t) == t.checkin \in {"check", "checked in"}

\* "shared" in tl
HasShared(t) == t.share = "shared"

\* "share" in tl
HasShare(t) == t.share \in {"share", "shared"}

\* "photo" in tl: the word stands alone or inside a mention
HasPhoto(t) == t.photo \/ \E i \in 1..Len(t.mentions) : t.mentions[i].word = "photo"

\* "album" in tl
HasAlbum(t) == t.album

\* the text is the empty string
IsEmptyText(t) ==
    /\ ~t.video /\ ~t.glyph /\ t.checkin = "" /\ t.share = ""
    /\ ~t.photo /\ ~t.album /\ t.mentions = <<>>

\* re.search(r'\+\s*(\d+)\s*(photo|image|pic)', tl): the index of the leftmost match, 0 for None
photo_match(t) ==
    IF \E i \in 1..Len(t.mentions) : t.mentions[i].plus
    THEN CHOOSE i \in 1..Len(t.mentions) :
            /\ t.mentions[i].plus
            /\ \A j \in 1..(i-1) : ~t.mentions[j].plus
    ELSE 0

\* re.search(r'(\d+)\s*(photo|image|pic)', tl): the pattern also matches inside "+N photo"
album_match(t) == IF Len(t.mentions) > 0 THEN 1 ELSE 0

\* group(0) of the explicit pattern: it ends with the word matched, before any plural "s"
ExplicitGroup0(m) == Piece(TRUE, m.n, m.word, FALSE)

\* group(0) of the bare pattern: it starts at the digits, after any "+"
BareGroup0(m) == Piece(FALSE, m.n, m.word, FALSE)

Signals(more, hint, video, type) ==
    [has_more_photos |-> more, more_photos_hint |-> hint, has_video |-> video, post_type |-> type]

DefaultSignals == Signals(FALSE, NoHint, FALSE, "post")

\* process_chunks.py and extract_facebook.py: both patterns are tried, the bare one last
MorePhotosBoth(t) ==
    LET pm == photo_match(t)
        am == album_match(t)
        m1 == IF pm # 0 THEN TRUE ELSE FALSE
        h1 == IF pm # 0 THEN ExplicitGroup0(t.mentions[pm]) ELSE NoHint
    IN  IF am # 0 /\ t.mentions[am].n > 3
        THEN [more |-> TRUE, hint |-> BareGroup0(t.mentions[am])]
        ELSE [more |-> m1, hint |-> h1]

\* extract_chunks.py: the bare pattern is tried only when the explicit one did not match
MorePhotosElse(t) ==
    LET pm == photo_match(t)
        am == album_match(t)
    IN  IF pm # 0
        THEN [more |-> TRUE, hint |-> ExplicitGroup0(t.mentions[pm])]
        ELSE IF am # 0 /\ t.mentions[am].n > 3
             THEN [more |-> TRUE, hint |-> BareGroup0(t.mentions[am])]
             ELSE [more |-> FALSE, hint |-> NoHint]

detect_signals_pc(t) ==
    IF IsEmptyText(t) THEN DefaultSignals
    ELSE LET mp == MorePhotosBoth(t)
             v  == HasVideoWord(t)
             ty == IF mp.more \/ HasPhoto(t) THEN "photo"
                   ELSE IF v THEN "video" ELSE "post"
         IN  Signals(mp.more, mp.hint, v, ty)

detect_signals_ec(t) ==
    IF IsEmptyText(t) THEN DefaultSignals
    ELSE LET mp == MorePhotosElse(t)
             v  == HasVideoWord(t) \/ HasPlayGlyph(t)
             ty == IF v THEN "video"
                   ELSE IF HasCheckinPhrase(t) THEN "check-in"
                   ELSE IF mp.more \/ HasPhoto(t) \/ HasAlbum(t) THEN "photo"
                   ELSE IF HasShared(t) THEN "share"
                   ELSE "post"
         IN  Signals(mp.more, mp.hint, v, ty)

detect_content_signals(t) ==
    LET mp == MorePhotosBoth(t)
        v  == HasVideoWord(t)
        ty == IF HasCheck(t) \/ HasCheckinPhrase(t) THEN "check-in"
              ELSE IF HasShared(t) \/ HasShare(t) THEN "share"
              ELSE IF mp.more \/ HasPhoto(t) THEN "photo"
              ELSE IF v THEN "video" ELSE "post"
    IN  Signals(mp.more, mp.hint, v, ty)

IdleT == text = "none" /\ sig_script = "none" /\ signals = "none" /\ pcT = "idle"

SignalsInit ==
    /\ text \in TextPool
    /\ sig_script \in Scripts3
    /\ signals = DefaultSignals
    /\ pcT = "text"

DetectPC ==
    /\ pcT = "text" /\ sig_script = "process_chunks"
    /\ signals' = detect_signals_pc(text)
    /\ pcT' = "done"
    /\ UNCHANGED <<text, sig_script, othersT>>

DetectEC ==
    /\ pcT = "text" /\ sig_script = "extract_chunks"
    /\ signals' = detect_signals_ec(text)
    /\ pcT' = "done"
    /\ UNCHANGED <<text, sig_script, othersT>>

DetectFB ==
    /\ pcT = "text" /\ sig_script = "extract_facebook"
    /\ signals' = detect_content_signals(text)
    /\ pcT' = "done"
    /\ UNCHANGED <<text, sig_script, othersT>>

NextSignals == DetectPC \/ DetectEC \/ DetectFB

(***************************************************************************)
(* Image extraction: extract_post_images and the image loop of             *)
(* process_one_chunk (process_chunks.py), extract_images and the thumbnail *)
(* loop of process_chunk (extract_chunks.py).  The contour detection is an *)
(* input: each region comes with the bounding boxes cv2 found in it and    *)
(* the standard deviation of the pixels inside each box.  The 12-digit md5 *)
(* prefix of a key string is represented by the fields the string is built *)
(* from; two different strings are taken to hash differently.              *)
(***************************************************************************)
NumRegions == 2
MaxBoxes == 2
RegionRows == 4000

Box(x, y, w, h, std) == [x |-> x, y |-> y, w |-> w, h |-> h, std |-> std]

BoxPool ==
    << Box(0, 0, 400, 400, 40),      \* a photograph
       Box(0, 0, 300, 150, 40),      \* a thumbnail with the same corner, 0.3 of a wide region
       Box(10, 500, 79, 300, 40),    \* too narrow
       Box(10, 500, 240, 79, 40),    \* too low
       Box(0, 900, 300, 300, 19),    \* near-uniform
       Box(20, 900, 80, 801, 40),    \* taller than ten times its width
       Box(0, 2000, 900, 80, 40),    \* wider than ten times its height
       Box(100, 2000, 80, 80, 20) >> \* the smallest box that passes in a narrow region

RegionWidths == {260, 1000}

ExtractScripts == {"process_chunks", "extract_chunks"}

Layouts == {"one chunk", "chunk each"}

\* the boxes of BoxPool that lie inside a region of width w
Fits(w) == { i \in 1..Len(BoxPool) : BoxPool[i].x + BoxPool[i].w <= w }

RECURSIVE Pick(_, _)
\* the boxes with index in S, in pool order
Pick(S, i) ==
    IF i > Len(BoxPool) THEN <<>>
    ELSE (IF i \in S THEN <<BoxPool[i]>> ELSE <<>>) \o Pick(S, i + 1)

ContourLists(w) == { Pick(S, 1) : S \in { T \in SUBSET Fits(w) : Cardinality(T) <= MaxBoxes } }

KeepsBoxNoStd(b, w) ==
    /\ ~(b.w < 80 \/ b.h < 80)
    /\ ~(10 * b.w < 3 * w)
    /\ ~(b.w > 10 * b.h \/ 10 * b.w < b.h)
    /\ ~(b.w * b.h = 0)

\* extract_post_images / extract_images: the tests a contour's box has to pass
\* (cw < w * 0.3 and the two aspect tests in integers: the float results agree)
KeepsBox(b, w) ==
    /\ ~(b.w < 80 \/ b.h < 80)
    /\ ~(10 * b.w < 3 * w)
    /\ ~(b.w > 10 * b.h \/ 10 * b.w < b.h)
    /\ ~(b.w * b.h = 0)
    /\ ~(b.std < 20)

extract_post_images(cs, w) == SelectSeq(cs, LAMBDA b : KeepsBox(b, w))

\* the k-th region of the run: its chunk, its index in the chunk, where both start
PositionOf(lay, k) ==
    IF lay = "one chunk"
    THEN [chunk_index |-> 0, region_index |-> k - 1, y_offset |-> 0,
          ry_start |-> (k - 1) * RegionRows]
    ELSE [chunk_index |-> k - 1, region_index |-> 0, y_offset |-> (k - 1) * RegionRows,
          ry_start |-> 0]

\* process_chunks: md5(f"{source_file}_{chunk_idx}_{ridx}_{x}_{y}")[:12]
image_id_pc(pos, b) == <<"source", pos.chunk_index, pos.region_index, b.x, b.y>>

\* extract_chunks: md5(f"{source_file}_{post_idx}_{x}_{y+y_offset}")[:12], called with
\* the chunk file, the region's index in the chunk and global_y
image_id_ec(pos, b) ==
    <<"chunk", pos.chunk_index, pos.region_index, b.x, b.y + pos.y_offset + pos.ry_start>>

image_id(s, pos, b) == IF s = "process_chunks" THEN image_id_pc(pos, b) ELSE image_id_ec(pos, b)

is_thumbnail(b) == b.w < 200 \/ b.h < 200

ImageEntry(s, pos, b) ==
    [id |-> image_id(s, pos, b), chunk_index |-> pos.chunk_index,
     region_index |-> pos.region_index, box |-> b,
     width |-> b.w, height |-> b.h,
     is_thumbnail |-> is_thumbnail(b), needs_crawl |-> is_thumbnail(b)]

\* the crawl target appended for a thumbnail: md5(f"crawl_img_{iid}")[:12], type full_image
CrawlEntry(e) ==
    [id |-> <<"crawl_img", e.id>>, type |-> "full_image", image |-> e.id,
     priority |-> "high", status |-> "pending"]

RECURSIVE Entries(_, _, _)
Entries(s, pos, bs) ==
    IF bs = <<>> THEN <<>>
    ELSE <<ImageEntry(s, pos, Head(bs))>> \o Entries(s, pos, Tail(bs))

RECURSIVE IdsOf(_)
IdsOf(es) == IF es = <<>> THEN <<>> ELSE <<Head(es).id>> \o IdsOf(Tail(es))

RECURSIVE ThumbTargets(_)
ThumbTargets(es) ==
    IF es = <<>> THEN <<>>
    ELSE (IF Head(es).is_thumbnail THEN <<CrawlEntry(Head(es))>> ELSE <<>>)
         \o ThumbTargets(Tail(es))

PostEntry(pos, es) ==
    [chunk_index |-> pos.chunk_index, region_index |-> pos.region_index,
     has_images |-> Len(es) > 0, image_ids |-> IdsOf(es)]

IdleX ==
    /\ ex_script = "none" /\ region_w = 0 /\ layout = "none" /\ region_k = 0
    /\ contours = <<>> /\ all_images = <<>> /\ all_posts = <<>> /\ crawl_targets = <<>>

ExtractInit ==
    /\ ex_script \in ExtractScripts
    /\ region_w \in RegionWidths
    /\ layout \in Layouts
    /\ region_k = 0
    /\ contours = <<>> /\ all_images = <<>> /\ all_posts = <<>> /\ crawl_targets = <<>>

\* one pass of the region loop: the all_images of the region, its post, its thumbnail targets
Region(s) ==
    /\ ex_script = s
    /\ region_k < NumRegions
    /\ \E cs \in ContourLists(region_w) :
          LET pos == PositionOf(layout, region_k + 1)
              es  == Entries(s, pos, extract_post_images(cs, region_w))
          IN  /\ contours' = cs
              /\ all_images' = all_images \o es
              /\ all_posts' = Append(all_posts, PostEntry(pos, es))
              /\ crawl_targets' = crawl_targets \o ThumbTargets(es)
    /\ region_k' = region_k + 1
    /\ UNCHANGED <<ex_script, region_w, layout, othersX>>

RegionPC == Region("process_chunks")

RegionEC == Region("extract_chunks")

NextExtract == RegionPC \/ RegionEC

InitRun == IdleB /\ IdleC /\ IdleS /\ RunInit /\ IdleT /\ IdleX

SpecRun == InitRun /\ [][NextRun]_vars

InitSignals == IdleB /\ IdleC /\ IdleS /\ IdleR /\ SignalsInit /\ IdleX

SpecSignals == InitSignals /\ [][NextSignals]_vars

InitExtract == IdleB /\ IdleC /\ IdleS /\ IdleR /\ IdleT /\ ExtractInit

SpecExtract == InitExtract /\ [][NextExtract]_vars

InitSeg == IdleB /\ IdleC /\ SegInit /\ IdleR /\ IdleT /\ IdleX

SpecSeg == InitSeg /\ [][NextSeg]_vars

InitSplit == IdleB /\ IdleC /\ SplitInit /\ IdleR /\ IdleT /\ IdleX

SpecSplit == InitSplit /\ [][NextSplit]_vars

InitHeights == InitSeg \/ InitSplit

SpecHeights == InitHeights /\ [][NextSeg \/ NextSplit]_vars

InitC == IdleB /\ StageCInit /\ IdleS /\ IdleR /\ IdleT /\ IdleX

SpecC == InitC /\ [][NextC]_vars

InitB == StageBInit /\ IdleC /\ IdleS /\ IdleR /\ IdleT /\ IdleX

SpecB == InitB /\ [][NextB]_vars

(***************************************************************************)
(* Stage B claims                                                          *)
(***************************************************************************)
AssignedDates == [k \in 1..Len(assignments) |-> assignments[k].date]

\* C1: the dates Stage B assigns are non-increasing in scroll order, the
\* extrapolated ones included: for all i < j, date_assigned[i] >= date_assigned[j].
C1_Monotone ==
    \A i, j \in 1..Len(assignments) :
        i < j => IsoGeq(assignments[i].date, assignments[j].date)

\* a jump to an older known date, a later aligned post and an extrapolated one
C1_Witness ==
    /\ Len(assignments) = 3
    /\ Len(fb_iso) = 3
    /\ image_posts[1] = Match(2019, 1, 8)
    /\ assignments[1].date = fb_iso[2]
    /\ assignments[2].date = fb_iso[3]
    /\ assignments[3].date = FromOrdinal(IsoToOrdinal(fb_iso[3]) - 14)

\* the regex groups form a calendar date (any year)
YieldsDate(post) == post.hit /\ ValidDate(post.y, post.m, post.d)

\* ... and find_best_fb_date keeps it (year inside its window)
YieldsAcceptedDate(post) ==
    YieldsDate(post) /\ post.y >= YearLo /\ post.y <= YearHi

InList(s, v) == \E k \in 1..Len(s) : s[k] = v

\* d is an entry of rem at the smallest absolute day distance from the post's date
IsNearest(rem, d, post) ==
    LET t == ToOrdinal(post.y, post.m, post.d)
    IN  /\ InList(rem, d)
        /\ \A k \in 1..Len(rem) :
               Abs(IsoToOrdinal(d) - t) <= Abs(IsoToOrdinal(rem[k]) - t)

\* the three cases of the alignment rule, for a post that `dated` says has a date
AlignRule(dated(_), post, rem, d) ==
    IF dated(post) /\ InList(rem, <<post.y, post.m, post.d>>)
    THEN d = <<post.y, post.m, post.d>>
    ELSE IF dated(post)
         THEN IsNearest(rem, d, post)
         ELSE d = rem[1]

\* C4 as stated: every post whose text holds a calendar date gets the equal
\* known date, else the nearest one; a post without one gets the newest remaining.
C4_Original ==
    [][BAlign => AlignRule(YieldsDate, image_posts[post_i + 1], remaining_iso,
                           assignments'[Len(assignments')].date)]_vars

\* C4 amended: the text date counts only when its year is in 2005..2025; a post
\* with a date outside that window is treated like a post without a date.
C4_AlignRule ==
    [][BAlign => AlignRule(YieldsAcceptedDate, image_posts[post_i + 1], remaining_iso,
                           assignments'[Len(assignments')].date)]_vars

\* the three cases have happened: nearest (tie -> newest), exact, and no date
C4_Witness ==
    /\ Len(fb_iso) = 3
    /\ Len(assignments) = 1
    /\ image_posts[1] = Match(2018, 6, 12)
    /\ fb_iso[2] = <<2019, 1, 1>>
    /\ assignments[1].date = <<2018, 6, 10>>

\* index of the last assignment that came from the known list
LastAligned ==
    CHOOSE e \in 1..Len(assignments) :
        /\ InList(fb_iso, assignments[e].date)
        /\ \A j \in (e + 1)..Len(assignments) : ~InList(fb_iso, assignments[j].date)

\* C5: once the known list is exhausted every further post is dated: the k-th
\* post after exhaustion gets the last known-list date minus 14*k days; each loop
\* pass over an exhausted list appends the previous date minus 14 days; and the
\* list [2020-06-01, 2019-01-01] with three undated posts ends 2020-06-01,
\* 2019-01-01, 2018-12-18.
C5_StateInv ==
    /\ (remaining_dates = <<>> /\ assignments # <<>>) =>
          /\ Len(assignments) = post_i
          /\ \A j \in (LastAligned + 1)..Len(assignments) :
                 assignments[j].date =
                     FromOrdinal(IsoToOrdinal(assignments[LastAligned].date)
                                 - 14 * (j - LastAligned))
    /\ (/\ fb_iso = << <<2020, 6, 1>>, <<2019, 1, 1>> >>
        /\ image_posts = <<NoMatch, NoMatch, NoMatch>>
        /\ post_i = 3) =>
          AssignedDates = << <<2020, 6, 1>>, <<2019, 1, 1>>, <<2018, 12, 18>> >>

C5_Extrapolation ==
    /\ []C5_StateInv
    /\ [][BExtrapolate =>
            /\ Len(assignments') = Len(assignments) + 1
            /\ assignments'[Len(assignments')].date =
                   FromOrdinal(IsoToOrdinal(assignments[Len(assignments)].date) - 14)]_vars

\* the scenario's end state
C5_Witness ==
    /\ fb_iso = << <<2020, 6, 1>>, <<2019, 1, 1>> >>
    /\ image_posts = <<NoMatch, NoMatch, NoMatch>>
    /\ post_i = 3
    /\ Len(assignments) = 3

(***************************************************************************)
(* Stage A / C claims                                                      *)
(***************************************************************************)
\* the post got its date in Phase 1 (from date_parsed or from its OCR text)
OrigDated(i) == p_source[i] \in {"parsed", "ocr"}

\* Phase 2 has passed post i
Filled(i) == pcC = "done" \/ (pcC = "phase2" /\ i <= ci)

MaxOf(S) == CHOOSE x \in S : \A y \in S : y <= x
MinOf(S) == CHOOSE x \in S : \A y \in S : x <= y

\* C6: an undated post between its nearest dated neighbours, the preceding one at
\* ordinal D1 and the following one at D2 with D1 > D2, gets a date whose ordinal
\* lies in [D2, D1], with precision "estimated" and source "interpolated".
C6_InterpolatedInRange ==
    \A i \in 1..Len(posts_chrono) :
        (Filled(i) /\ ~OrigDated(i)) =>
            LET B == { k \in 1..(i - 1) : OrigDated(k) }
                A == { k \in (i + 1)..Len(posts_chrono) : OrigDated(k) }
            IN  (B # {} /\ A # {}) =>
                    LET D1 == date_to_ordinal(p_date[MaxOf(B)])
                        D2 == date_to_ordinal(p_date[MinOf(A)])
                    IN  D1 > D2 =>
                            /\ p_date[i].k = "day"
                            /\ D2 <= date_to_ordinal(p_date[i])
                            /\ date_to_ordinal(p_date[i]) <= D1
                            /\ p_precision[i] = "estimated"
                            /\ p_source[i] = "interpolated"

\* two undated posts between 2019-01-15 and 2018-12-31 (15 days apart), and the
\* truncating case: one undated post between two dates one day apart
C6_Witness ==
    /\ pcC = "done"
    /\ Len(posts_chrono) = 4
    /\ \/ /\ p_date[1] = DayStr(2019, 1, 15)
          /\ p_date[2] = DayStr(2019, 1, 10)
          /\ p_date[3] = DayStr(2019, 1, 5)
          /\ p_date[4] = DayStr(2018, 12, 31)
       \/ /\ p_date[2] = DayStr(2019, 1, 1)
          /\ p_source[3] = "interpolated"
          /\ p_date[3] = DayStr(2018, 12, 31)
          /\ p_date[4] = DayStr(2018, 12, 31)

(***************************************************************************)
(* Segmentation and divider detection claims                               *)
(***************************************************************************)
MinGapOf(v) ==
    IF v = "process_chunks" THEN MinHeightPC
    ELSE IF v = "extract_chunks" THEN MinGapEC
    ELSE MinGapFB

KeepOf(v) ==
    IF v = "process_chunks" THEN KeepPC
    ELSE IF v = "extract_chunks" THEN KeepEC
    ELSE KeepFB

Rows(im) == 0..(Height(im) - 1)

InSpan(y, r) == r[1] <= y /\ y < r[2]

\* the sections of the image the detected gaps leave: before, between, after
Sections ==
    [k \in 1..(Len(gaps) + 1) |->
        <<IF k = 1 THEN 0 ELSE gaps[k - 1][2],
          IF k <= Len(gaps) THEN gaps[k][1] ELSE Height(img)>>]

SpanEnds(rs) == { rs[i][1] : i \in 1..Len(rs) } \cup { rs[i][2] : i \in 1..Len(rs) }

\* Row 0 and every row at which a region, noise section or gap starts or ends.
\* Membership of a row in these spans only changes at such a row, so a
\* statement about the spans holding a row is true of all rows iff it is true
\* of these.
CriticalRows ==
    { y \in {0} \cup SpanEnds(regions) \cup SpanEnds(gaps) \cup SpanEnds(Sections)
        : y \in Rows(img) }

\* the sections too low to be a post: discarded as noise
NoiseSections ==
    { Sections[k] : k \in { j \in 1..Len(Sections) :
          ~Keeps(KeepOf(variant), Sections[j][2] - Sections[j][1]) } }

NoSectionKept == \A k \in 1..Len(Sections) : Sections[k] \in NoiseSections

PairwiseDisjoint(rs) ==
    \A i, j \in 1..Len(rs) :
        i < j => (rs[i][2] <= rs[j][1] \/ rs[j][2] <= rs[i][1])

InBounds(rs) ==
    \A i \in 1..Len(rs) : 0 <= rs[i][1] /\ rs[i][1] < rs[i][2] /\ rs[i][2] <= Height(img)

\* how many of the spans of sequence / set hold row y
CountSeq(rs, y) == Cardinality({ i \in 1..Len(rs) : InSpan(y, rs[i]) })
CountSet(S, y) == Cardinality({ r \in S : InSpan(y, r) })

\* C7 as stated, for find_post_regions: the emitted Regions are pairwise
\* disjoint and, with the discarded noise regions, their union is [0, height).
C7_Original ==
    (pcS = "done" /\ variant = "extract_chunks") =>
        /\ PairwiseDisjoint(regions)
        /\ InBounds(regions)
        /\ \A y \in CriticalRows : CountSeq(regions, y) + CountSet(NoiseSections, y) >= 1

\* the single Region is the whole input, emitted because no section was kept
WholeInputFallback == NoSectionKept /\ regions = << <<0, Height(img)>> >>

\* C7 amended: the emitted Regions are pairwise disjoint and lie in [0, height);
\* every row belongs to exactly one of an emitted Region, a discarded noise
\* region or a detected divider Gap, except when the whole input is emitted as
\* the single fallback Region [0, height).
C7_Partition ==
    pcS = "done" =>
        /\ PairwiseDisjoint(regions)
        /\ InBounds(regions)
        /\ \/ WholeInputFallback
           \/ \A y \in CriticalRows :
                  CountSeq(regions, y) + CountSet(NoiseSections, y) + CountSeq(gaps, y) = 1

\* two posts, a gap between them and a noise section after a second gap
C7_Witness ==
    /\ pcS = "done"
    /\ variant = "extract_chunks"
    /\ Len(regions) = 2
    /\ Len(gaps) = 2
    /\ NoiseSections # {}
    /\ ~WholeInputFallback

\* C9: every chunk yields at least one Region; when no section reaches the
\* minimum post height the single Region is the whole input [0, height).
C9_Original ==
    pcS = "done" =>
        /\ Len(regions) >= 1
        /\ NoSectionKept => regions = << <<0, Height(img)>> >>

\* row boundaries of the runs: a divider run can only start or end at one
RunBounds(im) == { RunStart(im, k) : k \in 1..(Len(im) + 1) }

\* the maximal runs of consecutive divider rows, as <<start, end>>
MaximalRuns(im) ==
    { r \in RunBounds(im) \X RunBounds(im) :
        /\ r[1] < r[2]
        /\ \A y \in r[1]..(r[2] - 1) : IsDivRow(im, y)
        /\ r[1] = 0 \/ ~IsDivRow(im, r[1] - 1)
        /\ r[2] = Height(im) \/ ~IsDivRow(im, r[2]) }

\* C10: the detector returns exactly the maximal divider runs of at least
\* min_gap_height rows, the one touching the last row included, as Gaps with
\* end_row > start_row, disjoint and in ascending order.
C10_Original ==
    pcS = "done" =>
        /\ { gaps[k] : k \in 1..Len(gaps) } =
               { r \in MaximalRuns(img) : r[2] - r[1] >= MinGapOf(variant) }
        /\ \A k \in 1..Len(gaps) : gaps[k][2] > gaps[k][1]
        /\ \A k \in 1..(Len(gaps) - 1) : gaps[k][2] <= gaps[k + 1][1]

(***************************************************************************)
(* Chunk planning claims                                                   *)
(***************************************************************************)
\* C8 (for images at least one chunk tall): the chunks written for an image
\* are contiguous and non-overlapping and their union is [0, image_height), so
\* every row, every content row in particular, is in exactly one chunk.
C8_Original ==
    (pcS = "done" /\ variant = "split_pngs" /\ Height(img) >= MAX_CHUNK_HEIGHT) =>
        /\ chunks # <<>>
        /\ chunks[1].y_start = 0
        /\ chunks[Len(chunks)].y_end = Height(img)
        /\ \A k \in 1..Len(chunks) : chunks[k].y_start < chunks[k].y_end
        /\ \A k \in 1..(Len(chunks) - 1) : chunks[k].y_end = chunks[k + 1].y_start

\* the cut is the center row of a detected gap, a divider row inside the gap
AtGapCenter(cut) ==
    /\ \E k \in 1..Len(gaps) :
          /\ gaps[k][1] = cut
          /\ gaps[k][2] <= cut
          /\ cut < gaps[k][3]
    /\ IsDivRow(img, cut)

\* C11: every cut chosen by chunk planning is the center row of a detected
\* gap and never a content row; an image with no gaps has no cuts and is
\* written as one chunk.
C11_Original ==
    (pcS = "done" /\ variant = "split_pngs") =>
        /\ \A c \in 1..Len(cut_points) : AtGapCenter(cut_points[c])
        /\ gaps = <<>> =>
              /\ cut_points = <<>>
              /\ Len(chunks) = 1
              /\ chunks[1].y_start = 0
              /\ chunks[1].y_end = Height(img)

(***************************************************************************)
(* Checkpoint claims                                                       *)
(***************************************************************************)
\* C2: a crash at any step of a save leaves the progress and the timeline file
\* complete (previous or new content): a file that was saved once is never
\* missing, empty or partially written after a crash.
C2_Original ==
    pcR = "crashed" => \A f \in ever_saved : disk[f].state = "complete"

PostsOf(u, tl) == Cardinality({k \in 1..Len(tl) : tl[k] = u})

\* C3: in a run with resume, a unit in the persisted completed set is never
\* processed and adds no post to the timeline; every other unit is attempted
\* at most once during the run and exactly once by the time the loop ends.
C3_ResumeSkips ==
    (resume /\ pcR \in {"loop", "save", "finished"}) =>
        \A u \in Units :
            IF u \in loaded
            THEN attempts[u] = 0 /\ PostsOf(u, timeline) = PostsOf(u, timeline_loaded)
            ELSE attempts[u] <= 1 /\ (pcR = "finished" => attempts[u] = 1)

\* a resumed run has finished, having skipped a completed unit and attempted another
C3_Witness ==
    /\ resume
    /\ pcR = "finished"
    /\ \E u \in Units : u \in loaded /\ attempts[u] = 0
    /\ \E u \in Units : u \notin loaded /\ attempts[u] = 1

\* the unit the loop has just left
PrevUnit ==
    IF script = "process_chunks" THEN manifest_chunks[unit_i - 1] ELSE remaining[unit_i - 1]

\* the loop is back at its head after a unit whose processing raised
BackAfterRaise == pcR = "loop" /\ unit_i > 1 /\ outcome[PrevUnit] = "raised"

C12_StateInv ==
    BackAfterRaise =>
        /\ timeline = kept_posts
        /\ Loadable("timeline")
        /\ disk["timeline"].data.posts = kept_posts

\* C12: when processing a unit raises, the exception is caught at the unit
\* boundary (the saves follow, the run is not ended), nothing is merged, and
\* when the loop moves on to the next unit the posts of the units completed
\* earlier are unchanged in memory and in the persisted timeline.
C12_CaughtAndKept ==
    /\ []C12_StateInv
    /\ [][ProcessRaise => (pcR' = "save" /\ timeline' = timeline /\ done_set' = done_set
                           /\ unit_i' = unit_i)]_vars

\* a unit raised after an earlier unit had completed, and the loop moved on
C12_Witness == BackAfterRaise /\ kept_posts # <<>>

\* C13: a failed checkpoint write is fatal for the run: once a write of the
\* progress or timeline file has raised, the run processes no further unit.
C13_Original ==
    [][(ProcessOk \/ ProcessRaise) => ~write_failed]_vars

\* a process_chunks run started with --force is under way or has finished
ForceRun == script = "process_chunks" /\ ~resume /\ pcR \in {"loop", "save", "finished"}

ProcessedOk == {u \in Units : outcome[u] = "ok"}

\* C14: a run in force mode discards all prior output: it reprocesses every
\* unit of the manifest, and the completed set and timeline it holds and
\* persists contain only the unit ids and posts produced in this run.
C14_ForceClean ==
    ForceRun =>
        /\ done_set = ProcessedOk
        /\ \A u \in Units :
              /\ PostsOf(u, timeline) = (IF u \in ProcessedOk THEN 1 ELSE 0)
              /\ attempts[u] <= 1
              /\ pcR = "finished" => attempts[u] = 1
        /\ (pcR = "finished" \/ (pcR = "loop" /\ unit_i > 1)) =>
              /\ Loadable("progress") /\ disk["progress"].data = ProcessedOk
              /\ Loadable("timeline") /\ disk["timeline"].data.posts = timeline

\* a force run has finished although every unit was in the persisted completed
\* set and the persisted timeline held posts
C14_Witness ==
    /\ ForceRun
    /\ pcR = "finished"
    /\ loaded = Units
    /\ timeline_loaded # <<>>
    /\ ProcessedOk # Units

\* the loop is back at its head after a unit that was processed or that raised
BackAfterUnit == pcR = "loop" /\ unit_i > 1 /\ outcome[PrevUnit] # "none"

\* C15: after every unit, succeeded or failed, the persisted timeline holds
\* freshly computed stats: the totals equal the lengths of its lists and
\* chunks_processed equals the size of the completed set.
C15_Original ==
    BackAfterUnit =>
        /\ Loadable("timeline")
        /\ disk["timeline"].data.stats = Stats(disk["timeline"].data.posts, done_set)

(***************************************************************************)
(* Stage B claims, continued                                               *)
(***************************************************************************)
\* position of a known date in the known-date list
EntryOf(d) == CHOOSE k \in 1..Len(fb_iso) : fb_iso[k] = d

\* the known-list entries no longer available: consumed or discarded
UsedUp == Len(fb_iso) - Len(remaining_iso)

C16_StateInv ==
    /\ remaining_iso = SubSeq(fb_iso, UsedUp + 1, Len(fb_iso))
    /\ \A i, j \in 1..Len(assignments) :
          (i < j /\ InList(fb_iso, assignments[i].date)
                 /\ InList(fb_iso, assignments[j].date)) =>
              EntryOf(assignments[i].date) < EntryOf(assignments[j].date)
    /\ \A i \in 1..Len(assignments) :
          InList(fb_iso, assignments[i].date) => EntryOf(assignments[i].date) <= UsedUp

\* C16: each entry of the known-date list is assigned to at most one post; the
\* entry a post gets is one still remaining, and with it every newer entry
\* leaves the remaining list for good, so no consumed or discarded entry is
\* assigned to a later post (an extrapolated date is never a list entry).
C16_UsedOnce ==
    /\ []C16_StateInv
    /\ [][BAlign =>
            LET d == assignments'[Len(assignments')].date
            IN  /\ InList(remaining_iso, d)
                /\ EntryOf(d) > UsedUp
                /\ ~InList(remaining_iso', d)
                /\ Len(remaining_iso') < Len(remaining_iso)]_vars
    /\ [][BExtrapolate =>
            \A k \in (Len(assignments) + 1)..Len(assignments') :
                ~InList(fb_iso, assignments'[k].date)]_vars

\* the first post took the second entry, discarding the first; the next post
\* took the third
C16_Witness ==
    /\ post_i = 2
    /\ Len(fb_iso) = 3
    /\ remaining_iso = <<>>
    /\ assignments[1].date = fb_iso[2]
    /\ assignments[2].date = fb_iso[3]

\* the one entry of rem the post must get: for a text date inside the year
\* window the nearest entry, the newest of equally near ones; else the newest
TheEntry(post, rem) ==
    IF YieldsAcceptedDate(post)
    THEN CHOOSE k \in 1..Len(rem) :
            /\ IsNearest(rem, rem[k], post)
            /\ \A j \in 1..(k - 1) : ~IsNearest(rem, rem[j], post)
    ELSE 1

\* the state a loop pass must lead to, written as a function of the state before
AfterPass ==
    IF remaining_iso # <<>>
    THEN LET k == TheEntry(image_posts[post_i + 1], remaining_iso)
         IN  [assignments |-> Append(assignments,
                                     [post |-> post_i + 1, date |-> remaining_iso[k]]),
              remaining_iso |-> SubSeq(remaining_iso, k + 1, Len(remaining_iso))]
    ELSE [assignments |->
              IF assignments = <<>> THEN assignments
              ELSE Append(assignments,
                          [post |-> post_i + 1,
                           date |-> FromOrdinal(IsoToOrdinal(
                                        assignments[Len(assignments)].date) - 14)]),
          remaining_iso |-> remaining_iso]

\* C17: Stage B is deterministic: every loop pass leads to one state that is
\* a function of the state before it, so the same posts in the same order with
\* the same known-date list give the same (post, date) pairs, the choice among
\* equally near known dates (the newest) included.
C17_Deterministic ==
    [][(BAlign \/ BExtrapolate) =>
         /\ assignments' = AfterPass.assignments
         /\ remaining_iso' = AfterPass.remaining_iso
         /\ remaining_dates' = [k \in 1..Len(remaining_iso') |-> IsoToOrdinal(remaining_iso'[k])]
         /\ post_i' = post_i + 1
         /\ fb_iso' = fb_iso
         /\ image_posts' = image_posts]_vars

\* a text date midway between two known dates got the newer one
C17_Witness ==
    /\ Len(assignments) = 1
    /\ image_posts[1] = Match(2019, 1, 8)
    /\ InList(fb_iso, <<2019, 1, 15>>)
    /\ InList(fb_iso, <<2019, 1, 1>>)
    /\ assignments[1].date = <<2019, 1, 15>>

(***************************************************************************)
(* Stage A / C claims, continued                                           *)
(***************************************************************************)
\* C18: an undated post with a dated post on one side only gets the date of
\* the nearest dated post on that side moved 14 days per position away from
\* it: older (minus) when the dated post precedes it, newer (plus) when it
\* follows; the source is "extrapolated".
C18_Extrapolated ==
    \A i \in 1..Len(posts_chrono) :
        (Filled(i) /\ ~OrigDated(i)) =>
            LET B == { k \in 1..(i - 1) : OrigDated(k) }
                A == { k \in (i + 1)..Len(posts_chrono) : OrigDated(k) }
            IN  /\ (B # {} /\ A = {}) =>
                      /\ p_date[i].k = "day"
                      /\ date_to_ordinal(p_date[i]) =
                             date_to_ordinal(p_date[MaxOf(B)]) - 14 * (i - MaxOf(B))
                      /\ p_source[i] = "extrapolated"
                /\ (B = {} /\ A # {}) =>
                      /\ p_date[i].k = "day"
                      /\ date_to_ordinal(p_date[i]) =
                             date_to_ordinal(p_date[MinOf(A)]) + 14 * (MinOf(A) - i)
                      /\ p_source[i] = "extrapolated"

\* both directions around one dated post, and a post two positions behind it
C18_Witness ==
    /\ pcC = "done"
    /\ Len(posts_chrono) = 4
    /\ OrigDated(2) /\ ~OrigDated(1) /\ ~OrigDated(3) /\ ~OrigDated(4)
    /\ date_to_ordinal(p_date[1]) = date_to_ordinal(p_date[2]) + 14
    /\ date_to_ordinal(p_date[3]) = date_to_ordinal(p_date[2]) - 14
    /\ date_to_ordinal(p_date[4]) = date_to_ordinal(p_date[2]) - 28

\* the post holds a date: a day or a month string
HasCalendarDate(i) == p_date[i].k \in {"day", "month"}

\* C19: at the end of Stage C a post has date "unknown" with precision "none"
\* exactly when neither it nor any other post of the timeline got a date in
\* Phase 1; when some post did, every post ends with a calendar date.
C19_UnknownIffNoBound ==
    pcC = "done" =>
        /\ \A i \in 1..Len(posts_chrono) :
              (p_date[i] = DateUnknown /\ p_precision[i] = "none")
                  <=> (\A j \in 1..Len(posts_chrono) : ~OrigDated(j))
        /\ \A i \in 1..Len(posts_chrono) :
              p_date[i] = DateUnknown \/ HasCalendarDate(i)
        /\ (\E j \in 1..Len(posts_chrono) : OrigDated(j)) =>
              \A i \in 1..Len(posts_chrono) : HasCalendarDate(i)

\* a timeline of three posts without any date evidence has ended Stage C
C19_Witness ==
    /\ pcC = "done"
    /\ Len(posts_chrono) = 3
    /\ \A i \in 1..3 : p_date[i] = DateUnknown /\ p_precision[i] = "none"

\* Phase 1 has passed post i
Phase1Passed(i) == pcC # "phase1" \/ i <= ci

\* Stage C leaves the date, precision and source of a directly dated post alone
DirectDatesKept ==
    [][\A i \in 1..Len(posts_chrono) :
          OrigDated(i) => /\ p_date'[i] = p_date[i]
                          /\ p_precision'[i] = p_precision[i]
                          /\ p_source'[i] = p_source[i]]_vars

\* C20 as stated: every post dated directly from its own text has precision
\* day and source parsed or ocr, and Stage C never changes its date.
C20_Original ==
    /\ [](\A i \in 1..Len(posts_chrono) : OrigDated(i) => p_precision[i] = "day")
    /\ DirectDatesKept

C20_StateInv ==
    \A i \in 1..Len(posts_chrono) :
        /\ (Phase1Passed(i) /\ Dated(posts_chrono[i].date_parsed)) =>
              /\ p_date[i] = posts_chrono[i].date_parsed
              /\ p_precision[i] = "day"
              /\ p_source[i] = "parsed"
        /\ p_source[i] = "ocr" =>
              /\ ~Dated(posts_chrono[i].date_parsed)
              /\ HasCalendarDate(i)
              /\ p_precision[i] = (IF p_date[i].k = "month" THEN "month" ELSE "day")

\* C20 amended: a post dated from its stored parsed date has precision day and
\* source parsed; a post dated from its OCR text has source ocr and precision
\* day, or month when the text gives only a month and a year; Stage C never
\* changes the date of either.
C20_DirectDates ==
    /\ []C20_StateInv
    /\ DirectDatesKept

\* Stage C has ended with a month-precision OCR date next to an estimated date
C20_Witness ==
    /\ pcC = "done"
    /\ \E i, j \in 1..Len(posts_chrono) :
          /\ p_source[i] = "ocr" /\ p_precision[i] = "month"
          /\ p_source[j] = "parsed"
          /\ \E k \in 1..Len(posts_chrono) : p_precision[k] = "estimated"


\* The rules of the priority list, as the keyword tests of the script that decides the type.
VideoRule == signals.has_video

CheckinRule == IF sig_script = "extract_facebook" THEN HasCheck(text) \/ HasCheckinPhrase(text)
               ELSE HasCheckinPhrase(text)

PhotoRule == \/ signals.has_more_photos
             \/ HasPhoto(text)
             \/ (sig_script = "extract_chunks" /\ HasAlbum(text))

ShareRule == IF sig_script = "extract_facebook" THEN HasShare(text) ELSE HasShared(text)

FirstMatchingRule ==
    IF VideoRule THEN "video"
    ELSE IF CheckinRule THEN "check-in"
    ELSE IF PhotoRule THEN "photo"
    ELSE IF ShareRule THEN "share"
    ELSE "post"

\* C21: once the detector has run, post_type is the type of the first rule the
\* text matches in the order video > check-in > photo > share > post; so a text
\* that matches the video rule is typed video whatever else it matches, and a
\* text that matches no rule is typed post.
C21_Original == pcT = "done" => signals.post_type = FirstMatchingRule


\* the first "+N photo(s)" piece of the text, as written
FirstExplicit == text.mentions[photo_match(text)]

OnlyOneBare == Len(text.mentions) = 1 /\ ~text.mentions[1].plus

\* C22: once the detector of process_chunks or extract_chunks has run, a text
\* with an explicit "+N photo(s)" piece has has_more_photos and its hint is
\* that piece as written ("+12 photos" for "+12 photos"), and a text whose
\* only mention is a bare "N photo(s)" has has_more_photos iff N > 3.
C22_Original ==
    (pcT = "done" /\ sig_script \in {"process_chunks", "extract_chunks"}) =>
        /\ photo_match(text) # 0 =>
              signals.has_more_photos /\ signals.more_photos_hint = FirstExplicit
        /\ OnlyOneBare => (signals.has_more_photos <=> text.mentions[1].n > 3)


\* the boxes of the Image records of the region processed last
LastBoxes ==
    LET pos == PositionOf(layout, region_k)
        es  == SelectSeq(all_images, LAMBDA e : /\ e.chunk_index = pos.chunk_index
                                                 /\ e.region_index = pos.region_index)
    IN  [i \in 1..Len(es) |-> es[i].box]

\* the condition of the specification on a box in a region of width w
Extractable(b, w) ==
    /\ b.w >= 80 /\ b.h >= 80
    /\ 10 * b.w >= 3 * w
    /\ b.h <= 10 * b.w /\ b.w <= 10 * b.h
    /\ b.std >= 20

TargetsFor(e) == SelectSeq(crawl_targets, LAMBDA t : t.type = "full_image" /\ t.image = e.id)

\* C24: an Image record is marked is_thumbnail iff its width or its height is
\* below 200, every thumbnail has exactly one full-image crawl target and that
\* target has priority low, and an image that is no thumbnail has none.
C24_Original ==
    \A i \in 1..Len(all_images) :
        LET e == all_images[i]
        IN  /\ e.is_thumbnail <=> (e.width < 200 \/ e.height < 200)
            /\ e.is_thumbnail =>
                  /\ Len(TargetsFor(e)) = 1
                  /\ TargetsFor(e)[1].priority = "low"
            /\ ~e.is_thumbnail => TargetsFor(e) = <<>>


\* the Image records with id d
RecordsOf(d) == SelectSeq(all_images, LAMBDA e : e.id = d)

\* C25: in the records of one uninterrupted run every id of a post's image_ids
\* list belongs to exactly one Image record, no id is listed by two posts, and
\* the Image records of distinct extracted boxes have distinct ids.
C25_Original ==
    /\ \A p \in 1..Len(all_posts) : \A q \in 1..Len(all_posts[p].image_ids) :
          Len(RecordsOf(all_posts[p].image_ids[q])) = 1
    /\ \A i, j \in 1..Len(all_images) :
          all_images[i].id = all_images[j].id => i = j
    /\ \A p1, p2 \in 1..Len(all_posts) :
          (\E q1 \in 1..Len(all_posts[p1].image_ids), q2 \in 1..Len(all_posts[p2].image_ids) :
              all_posts[p1].image_ids[q1] = all_posts[p2].image_ids[q2]) => p1 = p2


\* C26: in the date stage of rename_images.py no post is given a date taken from
\* a date-like match that is not a calendar date (such a post has "no date" until
\* it is interpolated), and the script never ends by raising.
C26_Original ==
    /\ pcC # "raised"
    /\ \A i \in 1..Len(p_date) : p_source[i] = "ocr" => ~OrdinalRaises(p_date[i])


RECURSIVE SumHeights(_)
\* the rows of a list of <<start, end>> pairs
SumHeights(ps) == IF ps = <<>> THEN 0 ELSE (Head(ps)[2] - Head(ps)[1]) + SumHeights(Tail(ps))

KeepAll == [min |-> 0, strict |-> FALSE]

\* every section the region loop looks at: the rows before, between and after the gaps
SectionsOf(gs, h) == RegionsBetween(gs, h, KeepAll)

\* the sections the segmenter rejects as too low
NoiseOf(gs, h, keep) == SelectSeq(SectionsOf(gs, h), LAMBDA r : ~Keeps(keep, r[2] - r[1]))

\* the whole input was emitted because the region loop kept nothing
FallbackEmitted ==
    /\ regions = << <<0, Height(img)>> >>
    /\ RegionsBetween(gaps, Height(img), KeepOf(variant)) = <<>>

SegmentedNow == pcS = "done" /\ variant # "split_pngs"

ChunkedNow == pcS = "done" /\ variant = "split_pngs"

ChunkPairs == [k \in 1..Len(chunks) |-> <<chunks[k].y_start, chunks[k].y_end>>]

\* the pieces between 0, the cuts and the height
PiecesOf(cuts, h) ==
    LET b == <<0>> \o cuts \o <<h>> IN [k \in 1..(Len(b) - 1) |-> <<b[k], b[k + 1]>>]

\* the pieces below the 20-row floor, which are not written
SkippedPieces == SelectSeq(PiecesOf(cut_points, Height(img)), LAMBDA r : r[2] - r[1] < MinChunkRows)

\* the gaps at whose centre a cut was placed, as <<start, end>>
CutGaps ==
    LET used == SelectSeq(gaps, LAMBDA g : \E k \in 1..Len(cut_points) : cut_points[k] = g[1])
    IN  [k \in 1..Len(used) |-> <<used[k][2], used[k][3]>>]

\* C27 as stated: at both granularities the heights of the regions plus the
\* heights of the gaps used as cuts equal the image height minus the height
\* discarded as noise; when the whole input is emitted as the fallback region
\* no gap is a cut and nothing is discarded.
C27_Original ==
    /\ SegmentedNow =>
          IF FallbackEmitted THEN SumHeights(regions) = Height(img)
          ELSE SumHeights(regions) + SumHeights(gaps)
                  = Height(img) - SumHeights(NoiseOf(gaps, Height(img), KeepOf(variant)))
    /\ ChunkedNow =>
          SumHeights(ChunkPairs) + SumHeights(CutGaps)
              = Height(img) - SumHeights(SkippedPieces)

\* C27: for post segmentation the heights of the regions, of the gaps and of
\* the sections rejected as noise add up to the image height, and the fallback
\* region has the image height; for chunking the heights of the chunks alone
\* add up to the image height minus the height of the pieces under 20 rows
\* that are not written: the gaps at which cuts are placed lie inside chunks.
C27_HeightAccounting ==
    /\ SegmentedNow =>
          IF FallbackEmitted THEN SumHeights(regions) = Height(img)
          ELSE SumHeights(regions) + SumHeights(gaps)
                  + SumHeights(NoiseOf(gaps, Height(img), KeepOf(variant))) = Height(img)
    /\ ChunkedNow =>
          /\ SumHeights(ChunkPairs) + SumHeights(SkippedPieces) = Height(img)
          /\ \A k \in 1..Len(cut_points) : \E g \in 1..Len(gaps) :
                gaps[g][1] = cut_points[k] /\ gaps[g][2] <= cut_points[k] /\ cut_points[k] < gaps[g][3]

\* an image cut once at the centre of a gap, one of the two pieces too low to be written
C27_Witness ==
    /\ ChunkedNow
    /\ Len(cut_points) = 1 /\ Len(CutGaps) = 1 /\ SumHeights(CutGaps) >= MIN_DIVIDER_HEIGHT
    /\ Len(chunks) = 1 /\ Len(SkippedPieces) = 1


\* the completed set and the posts a run with resume would load now
PersistedDone == IF Loadable("progress") THEN disk["progress"].data ELSE {}

PersistedPosts == IF Loadable("timeline") THEN disk["timeline"].data.posts ELSE <<>>

\* C28: at every point of a process_chunks run, and after a crash, every unit
\* of the persisted completed set has its posts in the persisted timeline; so
\* a run with resume holds the posts of every unit it skips.
C28_Original ==
    script = "process_chunks" =>
        /\ \A u \in PersistedDone : PostsOf(u, PersistedPosts) > 0
        /\ (resume /\ pcR = "loop") =>
              \A u \in Units : (u \in loaded /\ u \in done_set) => PostsOf(u, timeline) > 0


\* C29: whatever runs, resumes and crashes came before, the persisted timeline
\* and the timeline in memory hold the posts of each unit at most once.
C29_Original ==
    \A u \in Units : PostsOf(u, PersistedPosts) <= 1 /\ PostsOf(u, timeline) <= 1


\* the units whose processing raised in the run under way (or in the run just ended)
RaisedUnits == {u \in Units : outcome[u] = "raised"}

C30_StateInv ==
    /\ pcR \in {"loop", "save", "finished"} => done_set \cap RaisedUnits = {}
    /\ BackAfterRaise => (Loadable("progress") /\ PrevUnit \notin disk["progress"].data)

\* C30: a unit whose processing raised is not in the completed set held in
\* memory, every write of the progress file writes that set, and after the
\* saves that follow the raise the persisted set does not hold the unit, so the
\* run started after this one ends does not load it as completed and, with
\* resume, attempts it; inside the loop a unit enters the completed set only
\* in the step that merges its posts into the timeline.
C30_RaisedNeverCompleted ==
    /\ []C30_StateInv
    /\ [][ProcessRaise => done_set' = done_set]_vars
    /\ [][(disk'["progress"] # disk["progress"] /\ disk'["progress"].state = "complete")
              => (disk'["progress"].data = done_set /\ done_set \cap RaisedUnits = {})]_vars
    /\ [][(StartRun /\ pcR = "finished") => loaded' \cap RaisedUnits = {}]_vars
    /\ [][(pcR = "loop" /\ pcR' # "crashed") =>
              \A u \in done_set' \ done_set :
                  /\ u = chunk_file
                  /\ timeline' = Append(timeline, u)
                  /\ outcome'[u] = "ok"]_vars
    /\ [](resume /\ pcR = "finished" =>
              \A u \in Units : u \notin loaded => attempts[u] = 1)

\* a resumed run has finished in which unit 2 was attempted and raised: the
\* completed set in memory and on disk holds only the unit loaded as completed
C30_Witness ==
    /\ resume /\ runs = 2 /\ pcR = "finished"
    /\ loaded = {1}
    /\ attempts[2] = 1 /\ outcome[2] = "raised"
    /\ done_set = {1}
    /\ Loadable("progress") /\ disk["progress"].data = {1}

====
